---------------------------- MODULE Spec2Model ----------------------------
(***************************************************************************)
(* A model of the orderbook-replay-lab trading-simulation kernel: the      *)
(* order management system (oms), the portfolio, the order book, the       *)
(* simulated venue (venue-sim) and the engine that drives them.            *)
(*                                                                         *)
(* Conventions.  An Option<T> is a sequence: <<>> is None and <<x>> is     *)
(* Some(x).  A HashMap / BTreeMap is a function whose DOMAIN is the key    *)
(* set.  Price and Qty are their integer ticks() / lots().                 *)
(***************************************************************************)
EXTENDS Integers, Sequences, FiniteSets, TLC

VARIABLES
    oms,          \* Oms { next_id, orders, open_orders_count, orphan_reports }
    request,      \* the Option<OrderRequest> Oms::apply_intent returned, until the next report
    omsBranch,    \* history: the branch the last Oms call took
    portfolio,    \* Portfolio { positions, filled_by_order }
    pfBranch,     \* history: the path the last Portfolio::on_execution_report took
    book,         \* OrderBook { symbol, bids, asks }, shared by engine and venue
    venue,        \* SimVenue { maker_fee_ticks, taker_fee_ticks, next_ts_ns, live_orders }
    out,          \* the Vec<ExecutionReport> the last venue call appended to
    venueOp,      \* history: the last call made on the book or the venue
    risk,         \* RiskEngine.policies
    strategy,     \* the Box<dyn Strategy> the engine drives, with its state
    debug_assertions, \* whether the build compiles debug_assert! in
    replay,       \* the replay loop of the simulate command: its locals and the
                  \* calls it has made on the engine
    latency,      \* LatencyStats: the number of samples recorded
    pc,           \* where the engine is: "idle" between entries, else inside one
    running,      \* the ts_ns and symbol of the entry that is running
    queue,        \* Engine.intent_queue, each intent with its enqueue number
    processed_steps, \* the local processed_steps of handle_intent_queue
    ctx,          \* the ContextSnapshot last built for a risk or strategy call
    engOp,        \* history: the last step the engine took
    history,      \* history of a component driven on its own: the evaluations
                  \* a risk engine made, the intents of a strategy in flight,
                  \* the event a codec was given with what came out
    symbols       \* the SymbolTable the codecs are given

omsVars == <<oms, request, omsBranch>>
pfVars == <<portfolio, pfBranch>>
venueVars == <<book, venue, out, venueOp>>
engVars ==
    <<risk, strategy, debug_assertions, replay, symbols, history, latency, pc, running, queue,
      processed_steps, ctx, engOp>>
vars ==
    <<oms, request, omsBranch, portfolio, pfBranch, book, venue, out, venueOp,
      risk, strategy, debug_assertions, replay, symbols, history, latency, pc, running, queue,
      processed_steps, ctx, engOp>>

---------------------------------------------------------------------------
(* Bounds of the model. *)

MaxOrders == 2       \* PlaceLimit intents accepted by the OMS in one run
MaxQty == 2          \* largest quantity (lots) of an order or a fill
MaxFill == 1         \* largest cumulative filled qty of a report given to the OMS alone
MaxPrice == 3        \* largest price (ticks)
MaxLevelQty == 1     \* largest quantity (lots) of a book level
MaxVenueTs == 4      \* reports (venue timestamps) a venue emits in one run
MaxQueue == 2        \* intents a strategy lets wait in the engine's queue
MaxEvents == 2       \* applied market events (latency samples) in one run
MaxOrphans == 1      \* orphan reports counted in one run of the OMS
MaxPos == 2          \* largest total |position_lots| of a portfolio on its own
MaxPnl == 1          \* largest total |realized_pnl_ticks| of a portfolio on its own
MaxFees == 1         \* largest total fees_paid_ticks of a portfolio on its own
MaxReports == 3      \* reports one order receives in a row

Sides == {"Bid", "Ask"}
Prices == 1..MaxPrice
LevelQtys == 0..MaxLevelQty
Qtys == 1..MaxQty
Coids == 1..MaxOrders
(* 1_000_000_000, the nanoseconds of a second, by which RateLimitPolicy
   divides a timestamp and TwapStrategy::new multiplies its horizon *)
NANOS_PER_SEC == 1000000000

(* SymbolTable::new: no text interned.  by_id[i + 1] is the text of
   SymbolId i. *)
SymbolTable_new == [by_id |-> <<>>]

(* The simulate command not started *)
NoReplay ==
    [pc |-> "off", tape |-> <<>>, event |-> <<>>, timer_interval_ns |-> 1,
     limit |-> <<>>, last_tick_ts_ns |-> <<>>, last_tick |-> 0,
     ticks_processed |-> 0, events_read |-> 0, calls |-> <<>>]

BookSymbol == "S"
OtherSymbol == "X"

None == <<>>
Some(x) == <<x>>
IsSome(o) == Len(o) > 0
Unwrap(o) == o[1]

(* map.insert(k, v) and map.remove(k) of a HashMap / BTreeMap *)
MapInsert(m, k, v) == [x \in DOMAIN m \cup {k} |-> IF x = k THEN v ELSE m[x]]
MapRemove(m, k) == [x \in DOMAIN m \ {k} |-> m[x]]
EmptyMap == [x \in {} |-> 0]

---------------------------------------------------------------------------
(* trading-types *)

OrderStatuses ==
    {"New", "Accepted", "Working", "PartiallyFilled", "Filled", "Canceled",
     "Rejected", "Expired"}

ExecutionReport(coid, status, filled, price, fee, ts, symbol, side) ==
    [client_order_id |-> coid, status |-> status, filled_qty |-> filled,
     last_fill_price |-> price, fee_ticks |-> fee, ts_ns |-> ts,
     symbol |-> symbol, side |-> side]

PlaceLimit(symbol, side, price, qty) ==
    [kind |-> "PlaceLimit", symbol |-> symbol, side |-> side, price |-> price,
     qty |-> qty, tif |-> "Gtc"]
Cancel(coid) == [kind |-> "Cancel", client_order_id |-> coid]
Replace(coid, price, qty) ==
    [kind |-> "Replace", client_order_id |-> coid, new_price |-> price,
     new_qty |-> qty]

---------------------------------------------------------------------------
(* oms *)

OrderStates ==
    {"PendingNew", "Live", "PendingCancel", "Canceled", "Filled", "Rejected"}

is_terminal(state) == state \in {"Canceled", "Filled", "Rejected"}

(* map_status leaving an acknowledged order PendingNew *)
map_status_ack_pending(status) ==
    CASE status \in {"New", "Accepted"} -> "PendingNew"
      [] status \in {"Working", "PartiallyFilled"} -> "Live"
      [] status \in {"Canceled", "Expired"} -> "Canceled"
      [] status = "Filled" -> "Filled"
      [] status = "Rejected" -> "Rejected"

map_status(status) ==
    CASE status = "New" -> "PendingNew"
      [] status \in {"Accepted", "Working", "PartiallyFilled"} -> "Live"
      [] status \in {"Canceled", "Expired"} -> "Canceled"
      [] status = "Filled" -> "Filled"
      [] status = "Rejected" -> "Rejected"

saturating_sub1(n) == IF n = 0 THEN 0 ELSE n - 1
\* usize::MAX is out of reach of the model's bounds
saturating_add1(n) == n + 1

Oms_new ==
    [next_id |-> 1, orders |-> EmptyMap, open_orders_count |-> 0,
     orphan_reports |-> 0]

(* apply_intent taking a fresh id for a Replace as well *)
Oms_apply_intent_replace_mints(o, intent, ts_ns) ==
    CASE intent.kind = "PlaceLimit" ->
           [oms |-> [o EXCEPT
                       !.next_id = o.next_id + 1,
                       !.orders = MapInsert(o.orders, o.next_id,
                                            [state |-> "PendingNew", filled_qty |-> 0]),
                       !.open_orders_count = saturating_add1(o.open_orders_count)],
            request |-> Some([kind |-> "Place",
                              client_order_id |-> o.next_id,
                              symbol |-> intent.symbol,
                              side |-> intent.side,
                              order_type |-> "Limit",
                              price |-> Some(intent.price),
                              qty |-> intent.qty,
                              tif |-> intent.tif])]
      [] intent.kind = "Cancel" ->
           IF intent.client_order_id \in DOMAIN o.orders
           THEN [oms |-> IF ~is_terminal(o.orders[intent.client_order_id].state)
                         THEN [o EXCEPT !.orders[intent.client_order_id].state =
                                          "PendingCancel"]
                         ELSE o,
                 request |-> Some([kind |-> "Cancel",
                                   client_order_id |-> intent.client_order_id,
                                   ts_ns |-> ts_ns])]
           ELSE [oms |-> o, request |-> None]
      [] intent.kind = "Replace" ->
           IF intent.client_order_id \in DOMAIN o.orders
           THEN [oms |-> [o EXCEPT !.next_id = o.next_id + 1],
                 request |-> Some([kind |-> "Replace",
                                   client_order_id |-> intent.client_order_id,
                                   new_price |-> intent.new_price,
                                   new_qty |-> intent.new_qty,
                                   ts_ns |-> ts_ns])]
           ELSE [oms |-> o, request |-> None]

(* Oms::apply_intent: the new Oms and the returned Option<OrderRequest> *)
Oms_apply_intent(o, intent, ts_ns) ==
    CASE intent.kind = "PlaceLimit" ->
           LET client_order_id == o.next_id IN
           [oms |-> [o EXCEPT
                       !.next_id = o.next_id + 1,
                       !.orders = MapInsert(o.orders, client_order_id,
                                            [state |-> "PendingNew", filled_qty |-> 0]),
                       !.open_orders_count = saturating_add1(o.open_orders_count)],
            request |-> Some([kind |-> "Place",
                              client_order_id |-> client_order_id,
                              symbol |-> intent.symbol,
                              side |-> intent.side,
                              order_type |-> "Limit",
                              price |-> Some(intent.price),
                              qty |-> intent.qty,
                              tif |-> intent.tif])]
      [] intent.kind = "Cancel" ->
           IF intent.client_order_id \in DOMAIN o.orders
           THEN [oms |-> IF ~is_terminal(o.orders[intent.client_order_id].state)
                         THEN [o EXCEPT !.orders[intent.client_order_id].state =
                                          "PendingCancel"]
                         ELSE o,
                 request |-> Some([kind |-> "Cancel",
                                   client_order_id |-> intent.client_order_id,
                                   ts_ns |-> ts_ns])]
           ELSE [oms |-> o, request |-> None]
      [] intent.kind = "Replace" ->
           IF intent.client_order_id \in DOMAIN o.orders
           THEN [oms |-> IF ~is_terminal(o.orders[intent.client_order_id].state)
                         THEN [o EXCEPT !.orders[intent.client_order_id].state =
                                          "PendingNew"]
                         ELSE o,
                 request |-> Some([kind |-> "Replace",
                                   client_order_id |-> intent.client_order_id,
                                   new_price |-> intent.new_price,
                                   new_qty |-> intent.new_qty,
                                   ts_ns |-> ts_ns])]
           ELSE [oms |-> o, request |-> None]

(* The count decremented on every terminal status, whatever the entry's state
   was *)
OpenCountAfter_NoWasOpen(count, old, new) ==
    IF is_terminal(new) THEN saturating_sub1(count) ELSE count

(* Oms::on_execution_report: the open-order count after a report moved an
   entry from state `old` to state `new` *)
OpenCountAfter(count, old, new) ==
    LET was_open == ~is_terminal(old)
        is_open == ~is_terminal(new)
    IN  IF was_open /\ ~is_open THEN saturating_sub1(count)
        ELSE IF ~was_open /\ is_open THEN saturating_add1(count)
        ELSE count

(* The returns of on_execution_report without the one for a regressed
   cumulative qty *)
Oms_report_branch_no_stale(o, report) ==
    IF report.client_order_id \notin DOMAIN o.orders THEN "orphan"
    ELSE
      LET entry == o.orders[report.client_order_id]
          new_state == map_status(report.status)
      IN  IF report.filled_qty = entry.filled_qty /\ entry.state = new_state
          THEN "duplicate"
          ELSE "applied"

(* Oms::on_execution_report: which of its returns a report takes *)
Oms_report_branch(o, report) ==
    IF report.client_order_id \notin DOMAIN o.orders THEN "orphan"
    ELSE
      LET entry == o.orders[report.client_order_id]
          new_state == map_status(report.status)
          report_qty == report.filled_qty
          current_qty == entry.filled_qty
      IN  IF report_qty < current_qty THEN "stale"
          ELSE IF report_qty = current_qty /\ entry.state = new_state THEN "duplicate"
          ELSE "applied"

(* on_execution_report opening an entry for an id it does not know *)
Oms_on_execution_report_adopts_orphan(o, report) ==
    IF report.client_order_id \notin DOMAIN o.orders
    THEN [o EXCEPT
            !.orphan_reports = o.orphan_reports + 1,
            !.orders = MapInsert(o.orders, report.client_order_id,
                                 [state |-> map_status(report.status),
                                  filled_qty |-> report.filled_qty])]
    ELSE IF Oms_report_branch(o, report) \in {"stale", "duplicate"} THEN o
    ELSE [o EXCEPT
            !.open_orders_count =
                OpenCountAfter(o.open_orders_count,
                               o.orders[report.client_order_id].state,
                               map_status(report.status)),
            !.orders[report.client_order_id] =
                [state |-> map_status(report.status),
                 filled_qty |-> report.filled_qty]]

(* on_execution_report without its stale and duplicate returns, counting a
   terminal status as one order closed *)
Oms_on_execution_report_Unguarded(o, report) ==
    IF report.client_order_id \notin DOMAIN o.orders
    THEN [o EXCEPT !.orphan_reports = o.orphan_reports + 1]
    ELSE [o EXCEPT
            !.open_orders_count =
                IF is_terminal(map_status(report.status))
                THEN saturating_sub1(o.open_orders_count)
                ELSE o.open_orders_count,
            !.orders[report.client_order_id] =
                [state |-> map_status(report.status),
                 filled_qty |-> report.filled_qty]]

(* Oms::on_execution_report *)
Oms_on_execution_report(o, report) ==
    LET branch == Oms_report_branch(o, report) IN
    CASE branch = "orphan" -> [o EXCEPT !.orphan_reports = o.orphan_reports + 1]
      [] branch \in {"stale", "duplicate"} -> o
      [] branch = "applied" ->
           LET entry == o.orders[report.client_order_id]
               new_state == map_status(report.status)
           IN  [o EXCEPT
                  !.open_orders_count =
                      OpenCountAfter(o.open_orders_count, entry.state, new_state),
                  !.orders[report.client_order_id] =
                      [state |-> new_state, filled_qty |-> report.filled_qty]]

---------------------------------------------------------------------------
(* portfolio *)

Abs(x) == IF x < 0 THEN -x ELSE x
Min(a, b) == IF a <= b THEN a ELSE b
signum(x) == IF x > 0 THEN 1 ELSE IF x < 0 THEN -1 ELSE 0

Position_default ==
    [position_lots |-> 0, realized_pnl_ticks |-> 0, fees_paid_ticks |-> 0,
     avg_entry_price_ticks |-> None]

Portfolio_new == [positions |-> EmptyMap, filled_by_order |-> EmptyMap]

(* self.positions.entry(symbol).or_default() *)
PositionOrDefault(p, symbol) ==
    IF symbol \in DOMAIN p.positions THEN p.positions[symbol] ELSE Position_default

(* self.filled_by_order.get(coid).copied().unwrap_or(0) *)
PrevFilled(p, coid) ==
    IF coid \in DOMAIN p.filled_by_order THEN p.filled_by_order[coid] ELSE 0

(* Portfolio::on_execution_report: which of its paths a report takes *)
Portfolio_report_branch(p, report) ==
    IF report.status \in {"Canceled", "Rejected", "Expired"} THEN "terminal_drop"
    ELSE IF report.status # "Filled" /\ report.status # "PartiallyFilled"
    THEN "ignored"
    ELSE IF report.filled_qty <= PrevFilled(p, report.client_order_id)
    THEN "no_delta"
    ELSE "fill"

(* Realized P&L computed as for a long position whatever the sign *)
RealizedAfter_long_only(pos, signed_qty, fill_price) ==
    IF pos.position_lots # 0 /\ signum(pos.position_lots) # signum(signed_qty)
       /\ IsSome(pos.avg_entry_price_ticks)
    THEN pos.realized_pnl_ticks
           + (fill_price - Unwrap(pos.avg_entry_price_ticks))
             * Min(Abs(signed_qty), Abs(pos.position_lots))
    ELSE pos.realized_pnl_ticks

(* realized_pnl_ticks after a fill of signed_qty at fill_price *)
RealizedAfter(pos, signed_qty, fill_price) ==
    IF pos.position_lots # 0 /\ signum(pos.position_lots) # signum(signed_qty)
       /\ IsSome(pos.avg_entry_price_ticks)
    THEN LET avg_entry == Unwrap(pos.avg_entry_price_ticks)
             close_qty == Min(Abs(signed_qty), Abs(pos.position_lots))
             pnl_per_lot == IF pos.position_lots > 0
                            THEN fill_price - avg_entry
                            ELSE avg_entry - fill_price
         IN  pos.realized_pnl_ticks + pnl_per_lot * close_qty
    ELSE pos.realized_pnl_ticks

(* The entry price kept when the position closes: it stays as it was *)
AvgEntryAfter_KeepOnClose(pos, signed_qty, fill_price) ==
    LET new_position == pos.position_lots + signed_qty IN
    IF new_position = 0 THEN pos.avg_entry_price_ticks
    ELSE IF pos.position_lots = 0 \/ signum(pos.position_lots) = signum(signed_qty)
    THEN LET old_qty == Abs(pos.position_lots)
             add_qty == Abs(signed_qty)
             total_qty == old_qty + add_qty
             old_avg == IF IsSome(pos.avg_entry_price_ticks)
                        THEN Unwrap(pos.avg_entry_price_ticks) ELSE fill_price
         IN  Some((old_avg * old_qty + fill_price * add_qty) \div total_qty)
    ELSE Some(fill_price)

(* avg_entry_price_ticks after a fill of signed_qty at fill_price *)
AvgEntryAfter(pos, signed_qty, fill_price) ==
    LET new_position == pos.position_lots + signed_qty IN
    IF new_position = 0 THEN None
    ELSE IF pos.position_lots = 0 \/ signum(pos.position_lots) = signum(signed_qty)
    THEN LET old_qty == Abs(pos.position_lots)
             add_qty == Abs(signed_qty)
             total_qty == old_qty + add_qty
             old_avg == IF IsSome(pos.avg_entry_price_ticks)
                        THEN Unwrap(pos.avg_entry_price_ticks) ELSE fill_price
         IN  Some((old_avg * old_qty + fill_price * add_qty) \div total_qty)
    ELSE IF new_position # 0 THEN Some(fill_price)
    ELSE pos.avg_entry_price_ticks

(* on_execution_report taking each reported quantity as a fill of its own *)
Portfolio_on_execution_report_sums(p, report) ==
    LET branch == Portfolio_report_branch(p, report)
        coid == report.client_order_id
    IN
    CASE branch = "terminal_drop" ->
           [p EXCEPT !.filled_by_order = MapRemove(p.filled_by_order, coid)]
      [] branch = "ignored" -> p
      [] branch = "no_delta" ->
           IF report.status = "Filled"
           THEN [p EXCEPT !.filled_by_order = MapRemove(p.filled_by_order, coid)]
           ELSE p
      [] branch = "fill" ->
           LET reported == report.filled_qty
               pos == PositionOrDefault(p, report.symbol)
               fill_price == report.last_fill_price
               signed_qty == IF report.side = "Bid" THEN reported ELSE -reported
               new_pos ==
                   [position_lots |-> pos.position_lots + signed_qty,
                    realized_pnl_ticks |-> RealizedAfter(pos, signed_qty, fill_price),
                    fees_paid_ticks |-> pos.fees_paid_ticks + report.fee_ticks,
                    avg_entry_price_ticks |-> AvgEntryAfter(pos, signed_qty, fill_price)]
           IN  [positions |-> MapInsert(p.positions, report.symbol, new_pos),
                filled_by_order |->
                    IF report.status = "Filled"
                    THEN MapRemove(p.filled_by_order, coid)
                    ELSE MapInsert(p.filled_by_order, coid, reported)]

(* on_execution_report keeping the cumulative entry of an order after its
   Filled report *)
Portfolio_on_execution_report_keeps_entry(p, report) ==
    LET branch == Portfolio_report_branch(p, report)
        coid == report.client_order_id
    IN
    CASE branch = "terminal_drop" ->
           [p EXCEPT !.filled_by_order = MapRemove(p.filled_by_order, coid)]
      [] branch = "ignored" -> p
      [] branch = "no_delta" -> p
      [] branch = "fill" ->
           LET reported == report.filled_qty
               delta_qty == reported - PrevFilled(p, coid)
               pos == PositionOrDefault(p, report.symbol)
               fill_price == report.last_fill_price
               signed_qty == IF report.side = "Bid" THEN delta_qty ELSE -delta_qty
               new_pos ==
                   [position_lots |-> pos.position_lots + signed_qty,
                    realized_pnl_ticks |-> RealizedAfter(pos, signed_qty, fill_price),
                    fees_paid_ticks |-> pos.fees_paid_ticks + report.fee_ticks,
                    avg_entry_price_ticks |-> AvgEntryAfter(pos, signed_qty, fill_price)]
           IN  [positions |-> MapInsert(p.positions, report.symbol, new_pos),
                filled_by_order |-> MapInsert(p.filled_by_order, coid, reported)]

(* Portfolio::on_execution_report *)
Portfolio_on_execution_report(p, report) ==
    LET branch == Portfolio_report_branch(p, report)
        coid == report.client_order_id
    IN
    CASE branch = "terminal_drop" ->
           [p EXCEPT !.filled_by_order = MapRemove(p.filled_by_order, coid)]
      [] branch = "ignored" -> p
      [] branch = "no_delta" ->
           IF report.status = "Filled"
           THEN [p EXCEPT !.filled_by_order = MapRemove(p.filled_by_order, coid)]
           ELSE p
      [] branch = "fill" ->
           LET reported == report.filled_qty
               delta_qty == reported - PrevFilled(p, coid)
               pos == PositionOrDefault(p, report.symbol)
               fill_price == report.last_fill_price
               signed_qty == IF report.side = "Bid" THEN delta_qty ELSE -delta_qty
               new_pos ==
                   [position_lots |-> pos.position_lots + signed_qty,
                    realized_pnl_ticks |-> RealizedAfter(pos, signed_qty, fill_price),
                    fees_paid_ticks |-> pos.fees_paid_ticks + report.fee_ticks,
                    avg_entry_price_ticks |-> AvgEntryAfter(pos, signed_qty, fill_price)]
           IN  [positions |-> MapInsert(p.positions, report.symbol, new_pos),
                filled_by_order |->
                    IF report.status = "Filled"
                    THEN MapRemove(p.filled_by_order, coid)
                    ELSE MapInsert(p.filled_by_order, coid, reported)]

(* Portfolio::position_lots *)
Portfolio_position_lots(p, symbol) ==
    IF symbol \in DOMAIN p.positions THEN p.positions[symbol].position_lots ELSE 0

(* Portfolio::realized_pnl_ticks *)
Portfolio_realized_pnl_ticks(p, symbol) ==
    IF symbol \in DOMAIN p.positions THEN p.positions[symbol].realized_pnl_ticks ELSE 0

(* Portfolio::fees_paid_ticks *)
Portfolio_fees_paid_ticks(p, symbol) ==
    IF symbol \in DOMAIN p.positions THEN p.positions[symbol].fees_paid_ticks ELSE 0

(* the Option<i64> behind Portfolio::mark_to_mid's `pos.avg_entry_price_ticks?` *)
Portfolio_avg_entry(p, symbol) ==
    IF symbol \in DOMAIN p.positions
    THEN p.positions[symbol].avg_entry_price_ticks ELSE None

---------------------------------------------------------------------------
(* orderbook *)

Max(S) == CHOOSE x \in S : \A y \in S : y <= x
MinOf(S) == CHOOSE x \in S : \A y \in S : x <= y

LevelUpdate(side, price, qty) == [side |-> side, price |-> price, qty |-> qty]

L2Delta(ts_ns, symbol, updates) ==
    [type |-> "L2Delta", ts_ns |-> ts_ns, symbol |-> symbol, updates |-> updates]

OrderBook_new(symbol) == [symbol |-> symbol, bids |-> EmptyMap, asks |-> EmptyMap]

(* The loop body storing a level whatever its quantity *)
ApplyUpdate_keep_zero(b, update) ==
    IF update.side = "Bid"
    THEN [b EXCEPT !.bids = MapInsert(b.bids, update.price, update.qty)]
    ELSE [b EXCEPT !.asks = MapInsert(b.asks, update.price, update.qty)]

(* one iteration of the loop over `updates` in OrderBook::apply *)
ApplyUpdate(b, update) ==
    LET side == IF update.side = "Bid" THEN b.bids ELSE b.asks
        new_side == IF update.qty = 0
                    THEN MapRemove(side, update.price)
                    ELSE MapInsert(side, update.price, update.qty)
    IN  IF update.side = "Bid" THEN [b EXCEPT !.bids = new_side]
        ELSE [b EXCEPT !.asks = new_side]

RECURSIVE ApplyUpdates(_, _)
ApplyUpdates(b, updates) ==
    IF updates = <<>> THEN b
    ELSE ApplyUpdates(ApplyUpdate(b, Head(updates)), Tail(updates))

(* The updates applied whatever the symbol of the event *)
OrderBook_apply_delta_any_symbol(b, event) ==
    [book |-> ApplyUpdates(b, event.updates), applied |-> TRUE]

(* OrderBook::apply for an L2Delta: the new book and the returned bool *)
OrderBook_apply_delta(b, event) ==
    IF event.symbol # b.symbol THEN [book |-> b, applied |-> FALSE]
    ELSE [book |-> ApplyUpdates(b, event.updates), applied |-> TRUE]

L2Snapshot(ts_ns, symbol, bids, asks) ==
    [type |-> "L2Snapshot", ts_ns |-> ts_ns, symbol |-> symbol, bids |-> bids,
     asks |-> asks]

(* One side of a snapshot: the supplied (price, qty) levels put into a map,
   zero-qty entries dropped *)
RECURSIVE SnapshotSide(_, _)
SnapshotSide(side, levels) ==
    IF levels = <<>> THEN side
    ELSE SnapshotSide(IF Head(levels)[2] = 0 THEN side
                      ELSE MapInsert(side, Head(levels)[1], Head(levels)[2]),
                      Tail(levels))

(* A snapshot laid over the levels the book holds *)
OrderBook_apply_snapshot_merge(b, event) ==
    IF event.symbol # b.symbol THEN [book |-> b, applied |-> FALSE]
    ELSE [book |-> [b EXCEPT !.bids = SnapshotSide(b.bids, event.bids),
                             !.asks = SnapshotSide(b.asks, event.asks)],
          applied |-> TRUE]

(* OrderBook::apply for an L2Snapshot: both sides are replaced wholesale *)
OrderBook_apply_snapshot(b, event) ==
    IF event.symbol # b.symbol THEN [book |-> b, applied |-> FALSE]
    ELSE [book |-> [b EXCEPT !.bids = SnapshotSide(EmptyMap, event.bids),
                             !.asks = SnapshotSide(EmptyMap, event.asks)],
          applied |-> TRUE]

(* OrderBook::apply: the new book and the returned bool *)
OrderBook_apply(b, event) ==
    IF event.type = "L2Delta" THEN OrderBook_apply_delta(b, event)
    ELSE OrderBook_apply_snapshot(b, event)

(* OrderBook::best_bid: the last (highest) key of bids *)
best_bid(b) ==
    IF DOMAIN b.bids = {} THEN None
    ELSE LET p == Max(DOMAIN b.bids) IN Some(<<p, b.bids[p]>>)

(* OrderBook::best_ask: the first (lowest) key of asks *)
best_ask(b) ==
    IF DOMAIN b.asks = {} THEN None
    ELSE LET p == MinOf(DOMAIN b.asks) IN Some(<<p, b.asks[p]>>)

---------------------------------------------------------------------------
(* venue-sim *)

MAX_PASSIVE_FILLS_PER_EVENT == 1024

SimVenue_new(maker_fee_ticks, taker_fee_ticks) ==
    [maker_fee_ticks |-> maker_fee_ticks, taker_fee_ticks |-> taker_fee_ticks,
     next_ts_ns |-> 1, live_orders |-> EmptyMap]

(* unwrap_or_else(zero_price) *)
UnwrapOrZero(o) == IF IsSome(o) THEN Unwrap(o) ELSE 0

(* A limit that must be strictly through the opposite best price to cross *)
passive_fill_price_strict(side, limit_price, bb, ba) ==
    IF side = "Bid"
    THEN IF IsSome(ba) /\ limit_price > Unwrap(ba)[1] THEN Some(Unwrap(ba)[1]) ELSE None
    ELSE IF IsSome(bb) /\ limit_price < Unwrap(bb)[1] THEN Some(Unwrap(bb)[1]) ELSE None

(* SimVenue::passive_fill_price, also the Limit arm of handle_place and the
   crossing_price of handle_replace, which repeat it *)
passive_fill_price(side, limit_price, bb, ba) ==
    IF side = "Bid"
    THEN IF IsSome(ba) /\ limit_price >= Unwrap(ba)[1] THEN Some(Unwrap(ba)[1]) ELSE None
    ELSE IF IsSome(bb) /\ limit_price <= Unwrap(bb)[1] THEN Some(Unwrap(bb)[1]) ELSE None

(* handle_place storing a priced limit order whether it crossed or not *)
handle_place_store_always(v, b, order, o) ==
    LET crossing_price ==
            passive_fill_price(order.side, Unwrap(order.price), best_bid(b), best_ask(b))
        ack_price == IF IsSome(crossing_price) THEN Unwrap(crossing_price)
                     ELSE UnwrapOrZero(order.price)
        accepted == ExecutionReport(order.client_order_id, "Accepted", 0, ack_price,
                                    0, v.next_ts_ns, order.symbol, order.side)
        stored == MapInsert(v.live_orders, order.client_order_id,
                            [symbol |-> order.symbol, side |-> order.side,
                             price |-> order.price, qty |-> order.qty])
    IN  IF IsSome(crossing_price)
        THEN [venue |-> [v EXCEPT !.next_ts_ns = v.next_ts_ns + 2,
                                  !.live_orders = stored],
              out |-> o \o <<accepted,
                             ExecutionReport(order.client_order_id, "Filled",
                                             order.qty, Unwrap(crossing_price),
                                             v.taker_fee_ticks, v.next_ts_ns + 1,
                                             order.symbol, order.side)>>]
        ELSE [venue |-> [v EXCEPT !.next_ts_ns = v.next_ts_ns + 1,
                                  !.live_orders = stored],
              out |-> Append(o, accepted)]

(* SimVenue::handle_place: the venue after the call and `out` with the
   reports appended *)
handle_place(v, b, order, o) ==
    LET bb == best_bid(b)
        ba == best_ask(b)
    IN
    IF order.order_type = "Limit" /\ ~IsSome(order.price)
    THEN [venue |-> [v EXCEPT !.next_ts_ns = v.next_ts_ns + 1],
          out |-> Append(o, ExecutionReport(order.client_order_id, "Rejected", 0,
                                            UnwrapOrZero(order.price), 0,
                                            v.next_ts_ns, order.symbol, order.side))]
    ELSE
      LET crossing_price ==
              IF order.order_type = "Limit"
              THEN passive_fill_price(order.side, Unwrap(order.price), bb, ba)
              ELSE IF order.side = "Bid"
                   THEN (IF IsSome(ba) THEN Some(Unwrap(ba)[1]) ELSE None)
                   ELSE (IF IsSome(bb) THEN Some(Unwrap(bb)[1]) ELSE None)
          ack_price == IF IsSome(crossing_price) THEN Unwrap(crossing_price)
                       ELSE UnwrapOrZero(order.price)
          accepted == ExecutionReport(order.client_order_id, "Accepted", 0, ack_price,
                                      0, v.next_ts_ns, order.symbol, order.side)
      IN  IF IsSome(crossing_price)
          THEN [venue |-> [v EXCEPT !.next_ts_ns = v.next_ts_ns + 2],
                out |-> o \o <<accepted,
                               ExecutionReport(order.client_order_id, "Filled",
                                               order.qty, Unwrap(crossing_price),
                                               v.taker_fee_ticks, v.next_ts_ns + 1,
                                               order.symbol, order.side)>>]
          ELSE IF order.order_type = "Limit"
          THEN [venue |-> [v EXCEPT
                             !.next_ts_ns = v.next_ts_ns + 1,
                             !.live_orders =
                                 MapInsert(v.live_orders, order.client_order_id,
                                           [symbol |-> order.symbol,
                                            side |-> order.side,
                                            price |-> order.price,
                                            qty |-> order.qty])],
                out |-> Append(o, accepted)]
          ELSE [venue |-> [v EXCEPT !.next_ts_ns = v.next_ts_ns + 1],
                out |-> Append(o, accepted)]

(* SimVenue::handle_replace *)
handle_replace(v, b, client_order_id, new_price, new_qty, o) ==
    IF client_order_id \notin DOMAIN v.live_orders THEN [venue |-> v, out |-> o]
    ELSE
      LET order == [v.live_orders[client_order_id] EXCEPT
                      !.price = Some(new_price), !.qty = new_qty]
          removed == MapRemove(v.live_orders, client_order_id)
          crossing_price ==
              passive_fill_price(order.side, new_price, best_bid(b), best_ask(b))
          accepted == ExecutionReport(client_order_id, "Accepted", 0, new_price, 0,
                                      v.next_ts_ns, order.symbol, order.side)
      IN  IF IsSome(crossing_price)
          THEN [venue |-> [v EXCEPT !.next_ts_ns = v.next_ts_ns + 2,
                                    !.live_orders = removed],
                out |-> o \o <<accepted,
                               ExecutionReport(client_order_id, "Filled", new_qty,
                                               Unwrap(crossing_price),
                                               v.taker_fee_ticks, v.next_ts_ns + 1,
                                               order.symbol, order.side)>>]
          ELSE [venue |-> [v EXCEPT
                             !.next_ts_ns = v.next_ts_ns + 1,
                             !.live_orders = MapInsert(removed, client_order_id, order)],
                out |-> Append(o, accepted)]

(* handle_cancel answering a Cancel of an order that is not resting too *)
handle_cancel_always_reports(v, client_order_id, o) ==
    [venue |-> [v EXCEPT !.next_ts_ns = v.next_ts_ns + 1,
                         !.live_orders = MapRemove(v.live_orders, client_order_id)],
     out |-> Append(o, ExecutionReport(
                 client_order_id, "Canceled", 0,
                 IF client_order_id \in DOMAIN v.live_orders
                 THEN UnwrapOrZero(v.live_orders[client_order_id].price) ELSE 0,
                 0, v.next_ts_ns, BookSymbol,
                 IF client_order_id \in DOMAIN v.live_orders
                 THEN v.live_orders[client_order_id].side ELSE "Bid"))]

(* SimVenue::handle_cancel *)
handle_cancel(v, client_order_id, o) ==
    IF client_order_id \notin DOMAIN v.live_orders THEN [venue |-> v, out |-> o]
    ELSE LET order == v.live_orders[client_order_id] IN
         [venue |-> [v EXCEPT !.next_ts_ns = v.next_ts_ns + 1,
                              !.live_orders = MapRemove(v.live_orders, client_order_id)],
          out |-> Append(o, ExecutionReport(client_order_id, "Canceled", 0,
                                            UnwrapOrZero(order.price), 0,
                                            v.next_ts_ns, order.symbol, order.side))]

(* <SimVenue as ExecutionVenue>::submit *)
SimVenue_submit(v, b, req, o) ==
    CASE req.kind = "Place" -> handle_place(v, b, req, o)
      [] req.kind = "Cancel" -> handle_cancel(v, req.client_order_id, o)
      [] req.kind = "Replace" ->
           handle_replace(v, b, req.client_order_id, req.new_price, req.new_qty, o)

(* The orders in which live_orders.keys() may yield the keys: a HashMap
   iterates in an arbitrary order. *)
KeyOrders(m) ==
    {f \in [1..Cardinality(DOMAIN m) -> DOMAIN m] :
        \A i, j \in DOMAIN f : i # j => f[i] # f[j]}

RECURSIVE InsertSorted(_, _)
InsertSorted(sorted, id) ==
    IF sorted = <<>> THEN <<id>>
    ELSE IF id <= Head(sorted) THEN <<id>> \o sorted
    ELSE <<Head(sorted)>> \o InsertSorted(Tail(sorted), id)

RECURSIVE InsertionSort(_)
InsertionSort(ids) ==
    IF ids = <<>> THEN <<>>
    ELSE InsertSorted(InsertionSort(Tail(ids)), Head(ids))

(* The scan order left as live_orders.keys() gave it *)
Unsorted(ids) == ids

(* order_scan_ids.sort_unstable_by_key(|id| id.0): the keys of a map are
   distinct, so the result is the one ascending arrangement *)
sort_unstable_by_key(ids) == InsertionSort(ids)

(* The first loop of on_book_update: the (client_order_id, fill_price)
   pairs pushed to fill_candidates while scanning order_scan_ids *)
RECURSIVE fill_candidates(_, _, _, _)
fill_candidates(v, b, scan, acc) ==
    IF scan = <<>> \/ Len(acc) >= MAX_PASSIVE_FILLS_PER_EVENT THEN acc
    ELSE
      LET id == Head(scan) IN
      IF id \notin DOMAIN v.live_orders
      THEN fill_candidates(v, b, Tail(scan), acc)
      ELSE
        LET order == v.live_orders[id] IN
        IF ~IsSome(order.price) THEN fill_candidates(v, b, Tail(scan), acc)
        ELSE
          LET fill_price == passive_fill_price(order.side, Unwrap(order.price),
                                               best_bid(b), best_ask(b))
          IN  IF ~IsSome(fill_price) THEN fill_candidates(v, b, Tail(scan), acc)
              ELSE fill_candidates(v, b, Tail(scan),
                                   Append(acc, <<id, Unwrap(fill_price)>>))

(* The second loop of on_book_update: drain fill_candidates *)
RECURSIVE drain_candidates(_, _, _)
drain_candidates(v, cands, o) ==
    IF cands = <<>> THEN [venue |-> v, out |-> o]
    ELSE
      LET id == Head(cands)[1]
          fill_price == Head(cands)[2]
      IN  IF id \notin DOMAIN v.live_orders
          THEN drain_candidates(v, Tail(cands), o)
          ELSE
            LET order == v.live_orders[id] IN
            drain_candidates(
                [v EXCEPT !.next_ts_ns = v.next_ts_ns + 1,
                          !.live_orders = MapRemove(v.live_orders, id)],
                Tail(cands),
                Append(o, ExecutionReport(id, "Filled", order.qty, fill_price,
                                          v.maker_fee_ticks, v.next_ts_ns,
                                          order.symbol, order.side)))

(* <SimVenue as ExecutionVenue>::on_book_update, with `keys` the order in
   which live_orders.keys() yields the ids *)
SimVenue_on_book_update(v, b, keys, o) ==
    LET order_scan_ids == sort_unstable_by_key(keys)
    IN  drain_candidates(v, fill_candidates(v, b, order_scan_ids, <<>>), o)

---------------------------------------------------------------------------
(* strategy-api *)

(* ContextSnapshot::new *)
ContextSnapshot_new(ts_ns, symbol, bb, ba, position_lots, open_orders) ==
    [ts_ns |-> ts_ns, symbol |-> symbol, best_bid |-> bb, best_ask |-> ba,
     position_lots |-> position_lots, open_orders |-> open_orders,
     mid_price |-> IF IsSome(bb) /\ IsSome(ba)
                   THEN Some((Unwrap(bb)[1] + Unwrap(ba)[1]) \div 2)
                   ELSE None]

(* A strategy about which nothing is known: each callback may push any
   intents.  AnyIntents bounds what it pushes. *)
AnyStrategy == [kind |-> "any"]

(* A strategy that places one resting bid and then answers every Accepted
   report with a Replace of the reported order: it emits a new intent on
   every execution report, without end. *)
ChurnStrategy == [kind |-> "churn", placed |-> FALSE]

StrategyIntents ==
    {PlaceLimit(BookSymbol, sd, p, 1) : sd \in Sides, p \in Prices}
    \cup {Cancel(c) : c \in Coids}
    \cup {Replace(c, p, 1) : c \in Coids, p \in Prices}

(* The venue timestamps an intent can use up: Accepted and Filled, or one
   Canceled *)
IntentCost(intent) == IF intent.kind = "Cancel" THEN 1 ELSE 2

RECURSIVE SumCost(_)
SumCost(intents) ==
    IF intents = <<>> THEN 0 ELSE IntentCost(Head(intents)) + SumCost(Tail(intents))

PlaceCount(intents) ==
    Cardinality({i \in DOMAIN intents : intents[i].kind = "PlaceLimit"})

SeqsUpTo(S, n) == UNION {[1..k -> S] : k \in 0..n}

(* What a strategy about which nothing is known may push in one callback
   while `waiting` is already queued: any intents that keep the run within
   MaxQueue, MaxOrders and MaxVenueTs *)
AnyIntents(waiting, o, v) ==
    {pushed \in SeqsUpTo(StrategyIntents, MaxQueue - Len(waiting)) :
        /\ PlaceCount(waiting \o pushed) + (o.next_id - 1) <= MaxOrders
        /\ v.next_ts_ns + SumCost(waiting \o pushed) <= MaxVenueTs + 1}

---------------------------------------------------------------------------
(* strategies *)

(* TwapStrategy::new *)
TwapStrategy_new(target_qty_lots, horizon_secs, slice_qty_lots) ==
    LET slice == IF Abs(slice_qty_lots) > 1 THEN Abs(slice_qty_lots) ELSE 1
        abs_target == Abs(target_qty_lots)
        total_slices == IF abs_target = 0 THEN 0
                        ELSE (abs_target + slice - 1) \div slice
        horizon_ns == horizon_secs * NANOS_PER_SEC
        interval == IF total_slices = 0 THEN 0 ELSE horizon_ns \div total_slices
    IN  [kind |-> "twap",
         target_qty_lots |-> target_qty_lots,
         slice_qty_lots |-> slice,
         remaining_qty_lots |-> target_qty_lots,
         next_ts_ns |-> None,
         interval_ns |-> IF total_slices > 0 /\ interval = 0 THEN 1 ELSE interval,
         in_flight |-> FALSE,
         last_reported_qty |-> 0]

(* maybe_place placing again while an order is in flight *)
TwapStrategy_maybe_place_while_in_flight(twap, c) ==
    IF twap.remaining_qty_lots = 0 THEN [strategy |-> twap, intents |-> <<>>]
    ELSE LET qty_lots == IF Abs(twap.remaining_qty_lots) < twap.slice_qty_lots
                         THEN Abs(twap.remaining_qty_lots) ELSE twap.slice_qty_lots
             side == IF twap.remaining_qty_lots > 0 THEN "Bid" ELSE "Ask"
             top == IF side = "Bid" THEN c.best_ask ELSE c.best_bid
         IN  IF ~IsSome(top) THEN [strategy |-> twap, intents |-> <<>>]
             ELSE [strategy |-> [twap EXCEPT !.in_flight = TRUE,
                                             !.last_reported_qty = 0],
                   intents |-> <<PlaceLimit(c.symbol, side, Unwrap(top)[1], qty_lots)>>]

(* TwapStrategy::maybe_place, which on_market_event and on_timer call: the
   strategy after the call and the Vec<Intent> returned *)
TwapStrategy_maybe_place(twap, c) ==
    IF twap.remaining_qty_lots = 0 \/ twap.in_flight
    THEN [strategy |-> twap, intents |-> <<>>]
    ELSE
      LET next_ts == IF IsSome(twap.next_ts_ns) THEN Unwrap(twap.next_ts_ns)
                     ELSE c.ts_ns
          timed == [twap EXCEPT !.next_ts_ns = Some(next_ts)]
          qty_lots == IF Abs(twap.remaining_qty_lots) < twap.slice_qty_lots
                      THEN Abs(twap.remaining_qty_lots) ELSE twap.slice_qty_lots
          side == IF twap.remaining_qty_lots > 0 THEN "Bid" ELSE "Ask"
          top == IF side = "Bid" THEN c.best_ask ELSE c.best_bid
          step == IF twap.interval_ns > 1 THEN twap.interval_ns ELSE 1
      IN  IF c.ts_ns < next_ts THEN [strategy |-> timed, intents |-> <<>>]
          ELSE IF qty_lots = 0 THEN [strategy |-> timed, intents |-> <<>>]
          ELSE IF ~IsSome(top) THEN [strategy |-> timed, intents |-> <<>>]
          ELSE [strategy |-> [timed EXCEPT !.in_flight = TRUE,
                                           !.last_reported_qty = 0,
                                           !.next_ts_ns = Some(c.ts_ns + step)],
                intents |-> <<PlaceLimit(c.symbol, side, Unwrap(top)[1], qty_lots)>>]

(* The last block of on_report: the target is reached or passed *)
TwapStrategy_settle(twap) ==
    IF \/ twap.target_qty_lots >= 0 /\ twap.remaining_qty_lots <= 0
       \/ twap.target_qty_lots <= 0 /\ twap.remaining_qty_lots >= 0
    THEN [twap EXCEPT !.remaining_qty_lots = 0, !.in_flight = FALSE,
                      !.last_reported_qty = 0]
    ELSE twap

(* TwapStrategy::on_report, which on_execution_report calls *)
TwapStrategy_on_report(twap, report) ==
    IF ~twap.in_flight THEN twap
    ELSE IF report.status \in {"Filled", "PartiallyFilled"}
    THEN LET reported == report.filled_qty
             delta == reported - twap.last_reported_qty
             counted ==
                 IF delta > 0
                 THEN [twap EXCEPT
                         !.remaining_qty_lots =
                             IF report.side = "Bid" THEN @ - delta ELSE @ + delta,
                         !.last_reported_qty = reported]
                 ELSE twap
         IN  TwapStrategy_settle(
                 IF report.status = "Filled"
                 THEN [counted EXCEPT !.in_flight = FALSE, !.last_reported_qty = 0]
                 ELSE counted)
    ELSE IF report.status \in {"Canceled", "Rejected", "Expired"}
    THEN TwapStrategy_settle([twap EXCEPT !.in_flight = FALSE,
                                          !.last_reported_qty = 0])
    ELSE TwapStrategy_settle(twap)

(* MmStrategy::new *)
MmStrategy_new(half_spread_ticks, quote_qty_lots, skew_per_lot_ticks) ==
    [kind |-> "mm",
     half_spread_ticks |-> IF Abs(half_spread_ticks) > 1 THEN Abs(half_spread_ticks) ELSE 1,
     quote_qty_lots |-> IF Abs(quote_qty_lots) > 1 THEN Abs(quote_qty_lots) ELSE 1,
     skew_per_lot_ticks |-> skew_per_lot_ticks,
     bid_order_id |-> None, ask_order_id |-> None,
     bid_price |-> None, ask_price |-> None,
     pending_bid |-> FALSE, pending_ask |-> FALSE]

(* The two prices of quote taken as computed, without the three clamps *)
MmStrategy_quote_prices_unclamped(mm, c) ==
    LET skew == c.position_lots * mm.skew_per_lot_ticks IN
    [bid |-> Unwrap(c.mid_price) - mm.half_spread_ticks - skew,
     ask |-> Unwrap(c.mid_price) + mm.half_spread_ticks - skew]

(* The prices MmStrategy::quote computes when the context has a mid price *)
MmStrategy_quote_prices(mm, c) ==
    LET skew == c.position_lots * mm.skew_per_lot_ticks
        mid_ticks == Unwrap(c.mid_price)
        bid0 == mid_ticks - mm.half_spread_ticks - skew
        ask0 == mid_ticks + mm.half_spread_ticks - skew
        bid_ticks == IF bid0 < 1 THEN 1 ELSE bid0
        ask1 == IF ask0 < 1 THEN 1 ELSE ask0
    IN  [bid |-> bid_ticks,
         ask |-> IF ask1 <= bid_ticks THEN bid_ticks + 1 ELSE ask1]

(* MmStrategy::cancel_all *)
MmStrategy_cancel_all(mm) ==
    [strategy |-> [mm EXCEPT !.bid_order_id = None, !.ask_order_id = None,
                             !.bid_price = None, !.ask_price = None,
                             !.pending_bid = FALSE, !.pending_ask = FALSE],
     intents |-> (IF IsSome(mm.bid_order_id)
                  THEN <<Cancel(Unwrap(mm.bid_order_id))>> ELSE <<>>)
                 \o (IF IsSome(mm.ask_order_id)
                     THEN <<Cancel(Unwrap(mm.ask_order_id))>> ELSE <<>>)]

(* MmStrategy::quote, which on_market_event and on_timer call: the strategy
   after the call and the Vec<Intent> returned *)
MmStrategy_quote(mm, c) ==
    IF ~IsSome(c.mid_price) THEN MmStrategy_cancel_all(mm)
    ELSE
      LET px == MmStrategy_quote_prices(mm, c)
          qty == mm.quote_qty_lots
          bid_replace == /\ IsSome(mm.bid_order_id)
                         /\ ~mm.pending_bid
                         /\ mm.bid_price # Some(px.bid)
          bid_place == ~IsSome(mm.bid_order_id) /\ ~mm.pending_bid
          ask_replace == /\ IsSome(mm.ask_order_id)
                         /\ ~mm.pending_ask
                         /\ mm.ask_price # Some(px.ask)
          ask_place == ~IsSome(mm.ask_order_id) /\ ~mm.pending_ask
      IN  [strategy |->
               [mm EXCEPT
                  !.pending_bid = IF bid_replace \/ bid_place THEN TRUE ELSE @,
                  !.bid_price = IF bid_replace THEN Some(px.bid) ELSE @,
                  !.pending_ask = IF ask_replace \/ ask_place THEN TRUE ELSE @,
                  !.ask_price = IF ask_replace THEN Some(px.ask) ELSE @],
           intents |->
               (IF bid_replace THEN <<Replace(Unwrap(mm.bid_order_id), px.bid, qty)>>
                ELSE IF bid_place THEN <<PlaceLimit(c.symbol, "Bid", px.bid, qty)>>
                ELSE <<>>)
               \o (IF ask_replace
                   THEN <<Replace(Unwrap(mm.ask_order_id), px.ask, qty)>>
                   ELSE IF ask_place THEN <<PlaceLimit(c.symbol, "Ask", px.ask, qty)>>
                   ELSE <<>>)]

(* on_report clearing a side on Canceled, Rejected and Expired but not on
   Filled *)
MmStrategy_on_report_ignores_filled(mm, report) ==
    IF report.status \in {"Accepted", "Working", "PartiallyFilled"}
    THEN IF report.side = "Bid"
         THEN [mm EXCEPT !.bid_order_id = Some(report.client_order_id),
                         !.bid_price = Some(report.last_fill_price),
                         !.pending_bid = FALSE]
         ELSE [mm EXCEPT !.ask_order_id = Some(report.client_order_id),
                         !.ask_price = Some(report.last_fill_price),
                         !.pending_ask = FALSE]
    ELSE IF report.status \in {"Canceled", "Rejected", "Expired"}
    THEN IF report.side = "Bid"
         THEN [mm EXCEPT !.bid_order_id = None, !.bid_price = None,
                         !.pending_bid = FALSE]
         ELSE [mm EXCEPT !.ask_order_id = None, !.ask_price = None,
                         !.pending_ask = FALSE]
    ELSE mm

(* MmStrategy::on_report with apply_report_side *)
MmStrategy_on_report(mm, report) ==
    IF report.status \in {"Accepted", "Working", "PartiallyFilled"}
    THEN IF report.side = "Bid"
         THEN [mm EXCEPT !.bid_order_id = Some(report.client_order_id),
                         !.bid_price = Some(report.last_fill_price),
                         !.pending_bid = FALSE]
         ELSE [mm EXCEPT !.ask_order_id = Some(report.client_order_id),
                         !.ask_price = Some(report.last_fill_price),
                         !.pending_ask = FALSE]
    ELSE IF report.status \in {"Filled", "Canceled", "Rejected", "Expired"}
    THEN IF report.side = "Bid"
         THEN [mm EXCEPT !.bid_order_id = None, !.bid_price = None,
                         !.pending_bid = FALSE]
         ELSE [mm EXCEPT !.ask_order_id = None, !.ask_price = None,
                         !.pending_ask = FALSE]
    ELSE mm

(* NoopStrategy *)
NoopStrategy == [kind |-> "noop"]

(* Strategy::on_market_event and Strategy::on_timer: the possible
   [strategy, intents] outcomes of the call *)
Strategy_on_event(strat, c, waiting, o, v) ==
    IF strat.kind = "churn"
    THEN IF strat.placed THEN {[strategy |-> strat, intents |-> <<>>]}
         ELSE {[strategy |-> [strat EXCEPT !.placed = TRUE],
                intents |-> <<PlaceLimit(c.symbol, "Bid", 1, 1)>>]}
    ELSE IF strat.kind = "noop" THEN {[strategy |-> strat, intents |-> <<>>]}
    ELSE IF strat.kind = "twap" THEN {TwapStrategy_maybe_place(strat, c)}
    ELSE IF strat.kind = "mm" THEN {MmStrategy_quote(strat, c)}
    ELSE {[strategy |-> strat, intents |-> pushed] : pushed \in AnyIntents(waiting, o, v)}

(* Strategy::on_execution_report *)
Strategy_on_execution_report(strat, c, report, waiting, o, v) ==
    IF strat.kind = "churn"
    THEN IF report.status = "Accepted"
         THEN {[strategy |-> strat,
                intents |-> <<Replace(report.client_order_id,
                                      report.last_fill_price, 1)>>]}
         ELSE {[strategy |-> strat, intents |-> <<>>]}
    ELSE IF strat.kind = "noop" THEN {[strategy |-> strat, intents |-> <<>>]}
    ELSE IF strat.kind = "twap"
    THEN {[strategy |-> TwapStrategy_on_report(strat, report), intents |-> <<>>]}
    ELSE IF strat.kind = "mm"
    THEN {[strategy |-> MmStrategy_on_report(strat, report), intents |-> <<>>]}
    ELSE {[strategy |-> strat, intents |-> pushed] : pushed \in AnyIntents(waiting, o, v)}

---------------------------------------------------------------------------
(* risk *)

(* u64::MAX, the window_bucket of a RateLimitPolicy that has not evaluated
   an order yet.  The largest integer of the model stands for it: no
   ts_ns / 1_000_000_000 reaches either. *)
U64_MAX == 2147483647

Allow(intent) == [action |-> "Allow", intent |-> intent]
Reject(reason) == [action |-> "Reject", reason |-> reason]
Transform(intent) == [action |-> "Transform", intent |-> intent]

MaxPositionPolicy(limit_lots) == [kind |-> "MaxPosition", limit_lots |-> limit_lots]

PriceBandPolicy(max_distance_ticks) ==
    [kind |-> "PriceBand", max_distance_ticks |-> max_distance_ticks]

RateLimitPolicy(max_per_sec) ==
    [kind |-> "RateLimit", max_per_sec |-> max_per_sec,
     window_bucket |-> U64_MAX, count |-> 0]

(* An implementation of RiskPolicy from outside the crate, which the trait
   lets answer Transform: it moves the price of a PlaceLimit to `price` *)
RepricePolicy(price) == [kind |-> "Reprice", price |-> price]

(* MaxPositionPolicy::evaluate refusing whatever is asked once the position
   is at the limit, and looking at the position only *)
MaxPositionPolicy_evaluate_at_limit(policy, c, intent) ==
    LET limit == Abs(policy.limit_lots) IN
    IF limit = 0 THEN Reject("position limit is zero")
    ELSE IF intent.kind # "PlaceLimit" THEN Allow(intent)
    ELSE IF Abs(c.position_lots) >= limit THEN Reject("max position exceeded")
    ELSE Allow(intent)

(* MaxPositionPolicy::evaluate holding back every intent, a Cancel or a
   Replace too, while the position is beyond the limit *)
MaxPositionPolicy_evaluate_holds_all(policy, c, intent) ==
    LET limit == Abs(policy.limit_lots) IN
    IF limit = 0 THEN Reject("position limit is zero")
    ELSE IF Abs(c.position_lots) > limit THEN Reject("max position exceeded")
    ELSE IF intent.kind # "PlaceLimit" THEN Allow(intent)
    ELSE LET projected == IF intent.side = "Bid"
                          THEN c.position_lots + intent.qty
                          ELSE c.position_lots - intent.qty
         IN  IF Abs(projected) > limit THEN Reject("max position exceeded")
             ELSE Allow(intent)

(* <MaxPositionPolicy as RiskPolicy>::evaluate *)
MaxPositionPolicy_evaluate(policy, c, intent) ==
    LET limit == Abs(policy.limit_lots) IN
    IF limit = 0 THEN Reject("position limit is zero")
    ELSE IF intent.kind # "PlaceLimit" THEN Allow(intent)
    ELSE LET projected == IF intent.side = "Bid"
                          THEN c.position_lots + intent.qty
                          ELSE c.position_lots - intent.qty
         IN  IF Abs(projected) > limit THEN Reject("max position exceeded")
             ELSE Allow(intent)

(* <PriceBandPolicy as RiskPolicy>::evaluate *)
PriceBandPolicy_evaluate(policy, c, intent) ==
    LET max_distance == Abs(policy.max_distance_ticks) IN
    IF intent.kind # "PlaceLimit" THEN Allow(intent)
    ELSE IF ~IsSome(c.mid_price) THEN Allow(intent)
    ELSE IF Abs(intent.price - Unwrap(c.mid_price)) > max_distance
         THEN Reject("price outside band")
         ELSE Allow(intent)

is_order_intent(intent) == intent.kind \in {"PlaceLimit", "Cancel", "Replace"}

(* RateLimitPolicy::evaluate counting a rejected intent too *)
RateLimitPolicy_evaluate_counts_rejects(policy, c, intent) ==
    IF policy.max_per_sec = 0
    THEN [action |-> Reject("rate limit exceeded"), policy |-> policy]
    ELSE LET bucket == c.ts_ns \div NANOS_PER_SEC
             rolled == IF policy.window_bucket # bucket
                       THEN [policy EXCEPT !.window_bucket = bucket, !.count = 0]
                       ELSE policy
         IN  [action |-> IF rolled.count + 1 > rolled.max_per_sec
                         THEN Reject("rate limit exceeded") ELSE Allow(intent),
              policy |-> [rolled EXCEPT !.count = rolled.count + 1]]

(* <RateLimitPolicy as RiskPolicy>::evaluate: the RiskAction, and the policy
   with what the call left in its two RefCells *)
RateLimitPolicy_evaluate(policy, c, intent) ==
    IF ~is_order_intent(intent) THEN [action |-> Allow(intent), policy |-> policy]
    ELSE IF policy.max_per_sec = 0
    THEN [action |-> Reject("rate limit exceeded"), policy |-> policy]
    ELSE LET bucket == c.ts_ns \div NANOS_PER_SEC
             rolled == IF policy.window_bucket # bucket
                       THEN [policy EXCEPT !.window_bucket = bucket, !.count = 0]
                       ELSE policy
         IN  IF rolled.count + 1 > rolled.max_per_sec
             THEN [action |-> Reject("rate limit exceeded"), policy |-> rolled]
             ELSE [action |-> Allow(intent),
                   policy |-> [rolled EXCEPT !.count = rolled.count + 1]]

(* RepricePolicy's evaluate *)
RepricePolicy_evaluate(policy, c, intent) ==
    IF intent.kind = "PlaceLimit"
    THEN Transform([intent EXCEPT !.price = policy.price])
    ELSE Allow(intent)

(* policy.evaluate(ctx, &current) through the Box<dyn RiskPolicy>: the
   RiskAction and the policy after the call *)
RiskPolicy_evaluate(policy, c, intent) ==
    CASE policy.kind = "MaxPosition" ->
           [action |-> MaxPositionPolicy_evaluate(policy, c, intent), policy |-> policy]
      [] policy.kind = "PriceBand" ->
           [action |-> PriceBandPolicy_evaluate(policy, c, intent), policy |-> policy]
      [] policy.kind = "RateLimit" -> RateLimitPolicy_evaluate(policy, c, intent)
      [] policy.kind = "Reprice" ->
           [action |-> RepricePolicy_evaluate(policy, c, intent), policy |-> policy]

(* The loop of RiskEngine::evaluate from policy `i` on: the RiskAction
   returned, with the policies as the calls left them *)
RECURSIVE RiskEngine_fold(_, _, _, _)
RiskEngine_fold(policies, i, c, current) ==
    IF i > Len(policies)
    THEN [action |-> "Allow", intent |-> current, policies |-> policies]
    ELSE LET r == RiskPolicy_evaluate(policies[i], c, current)
             next == [policies EXCEPT ![i] = r.policy]
         IN  IF r.action.action = "Reject"
             THEN [action |-> "Reject", reason |-> r.action.reason,
                   policies |-> next]
             ELSE RiskEngine_fold(next, i + 1, c, r.action.intent)

(* The loop going on to the later policies after a Reject *)
RECURSIVE RiskEngine_fold_all(_, _, _, _, _)
RiskEngine_fold_all(policies, i, c, current, rejected) ==
    IF i > Len(policies)
    THEN IF rejected = <<>>
         THEN [action |-> "Allow", intent |-> current, policies |-> policies]
         ELSE [action |-> "Reject", reason |-> rejected[1], policies |-> policies]
    ELSE LET r == RiskPolicy_evaluate(policies[i], c, current)
             next == [policies EXCEPT ![i] = r.policy]
         IN  IF r.action.action = "Reject"
             THEN RiskEngine_fold_all(next, i + 1, c, current,
                                      IF rejected = <<>> THEN <<r.action.reason>>
                                      ELSE rejected)
             ELSE RiskEngine_fold_all(next, i + 1, c, r.action.intent, rejected)

(* RiskEngine::evaluate asking every policy, the first Reject still winning *)
RiskEngine_evaluate_all(policies, c, intent) ==
    RiskEngine_fold_all(policies, 1, c, intent, <<>>)

(* RiskEngine::evaluate *)
RiskEngine_evaluate(policies, c, intent) == RiskEngine_fold(policies, 1, c, intent)

---------------------------------------------------------------------------
(* codec *)

BIN_RECORD_VERSION == 1
BIN_RECORD_HEADER_LEN == 13

(* b"LOB2" *)
BIN_RECORD_MAGIC == <<76, 79, 66, 50>>

Ok(v) == [ok |-> TRUE, value |-> v]
Err(e) == [ok |-> FALSE, error |-> e]

(* A text is a sequence of characters.  str::trim *)
RECURSIVE TrimStart(_)
TrimStart(text) ==
    IF text # <<>> /\ Head(text) = " " THEN TrimStart(Tail(text)) ELSE text

RECURSIVE TrimEnd(_)
TrimEnd(text) ==
    IF text # <<>> /\ text[Len(text)] = " "
    THEN TrimEnd(SubSeq(text, 1, Len(text) - 1)) ELSE text

Trim(text) == TrimEnd(TrimStart(text))

(* SymbolTable::try_intern: the id of the trimmed text, which is appended
   with the next id when the table does not hold it; empty text is refused *)
SymbolTable_try_intern(table, text) ==
    LET trimmed == Trim(text) IN
    IF trimmed = <<>> THEN [table |-> table, result |-> Err("InvalidSymbol")]
    ELSE IF \E i \in DOMAIN table.by_id : table.by_id[i] = trimmed
    THEN [table |-> table,
          result |-> Ok((CHOOSE i \in DOMAIN table.by_id : table.by_id[i] = trimmed) - 1)]
    ELSE [table |-> [by_id |-> Append(table.by_id, trimmed)],
          result |-> Ok(Len(table.by_id))]

(* SymbolTable::try_resolve *)
SymbolTable_try_resolve(table, id) ==
    IF id + 1 \in DOMAIN table.by_id THEN Some(table.by_id[id + 1]) ELSE None

(* JsonMarketEvent::from_core: the event with the text of its symbol *)
JsonMarketEvent_from_core(event, table) ==
    LET text == SymbolTable_try_resolve(table, event.symbol) IN
    IF ~IsSome(text) THEN Err("UnknownSymbolId")
    ELSE Ok([event EXCEPT !.symbol = Unwrap(text)])

(* JsonMarketEvent::into_core: the table after the call and the event with
   the id of its symbol *)
JsonMarketEvent_into_core(wire, table) ==
    LET r == SymbolTable_try_intern(table, wire.symbol) IN
    IF ~r.result.ok THEN [table |-> r.table, result |-> Err("Core")]
    ELSE [table |-> r.table, result |-> Ok([wire EXCEPT !.symbol = r.result.value])]

(* BinMarketEvent::from_core and into_core, which repeat those of
   JsonMarketEvent *)
BinMarketEvent_from_core(event, table) == JsonMarketEvent_from_core(event, table)

BinMarketEvent_into_core(wire, table) == JsonMarketEvent_into_core(wire, table)

(* serde_json.  A line is a sequence of tokens: punctuation, string
   literals with their characters escaped, numbers with their decimal
   digits. *)
Digits == <<"0", "1", "2", "3", "4", "5", "6", "7", "8", "9">>

RECURSIVE ToDigits(_)
ToDigits(n) ==
    IF n < 10 THEN <<Digits[n + 1]>>
    ELSE Append(ToDigits(n \div 10), Digits[(n % 10) + 1])

DigitValue(d) == (CHOOSE i \in DOMAIN Digits : Digits[i] = d) - 1

RECURSIVE FromDigits(_)
FromDigits(ds) ==
    IF Len(ds) = 1 THEN DigitValue(ds[1])
    ELSE 10 * FromDigits(SubSeq(ds, 1, Len(ds) - 1)) + DigitValue(ds[Len(ds)])

RECURSIVE JsonEscape(_)
JsonEscape(text) ==
    IF text = <<>> THEN <<>>
    ELSE (IF Head(text) \in {"\"", "\\"} THEN <<"\\", Head(text)>> ELSE <<Head(text)>>)
         \o JsonEscape(Tail(text))

RECURSIVE JsonUnescape(_)
JsonUnescape(chars) ==
    IF chars = <<>> THEN <<>>
    ELSE IF Head(chars) = "\\" /\ Len(chars) >= 2
    THEN <<chars[2]>> \o JsonUnescape(Tail(Tail(chars)))
    ELSE <<Head(chars)>> \o JsonUnescape(Tail(chars))

JsonP(c) == [t |-> "punct", v |-> <<c>>]
JsonStr(text) == [t |-> "str", v |-> JsonEscape(text)]
JsonNum(n) == [t |-> "num", v |-> ToDigits(n)]

(* A key or a tag of the schema, one word *)
JsonKey(word) == JsonStr(<<word>>)

(* #[serde(rename_all = "snake_case")] of Side *)
SideName(side) == IF side = "Bid" THEN "bid" ELSE "ask"

JsonLevelUpdate(u) ==
    <<JsonP("{"), JsonKey("side"), JsonP(":"), JsonKey(SideName(u.side)), JsonP(","),
      JsonKey("price"), JsonP(":"), JsonNum(u.price), JsonP(","),
      JsonKey("qty"), JsonP(":"), JsonNum(u.qty), JsonP("}")>>

JsonLevel(l) == <<JsonP("["), JsonNum(l[1]), JsonP(","), JsonNum(l[2]), JsonP("]")>>

RECURSIVE JsonJoin(_)
JsonJoin(items) ==
    IF items = <<>> THEN <<>>
    ELSE IF Len(items) = 1 THEN items[1]
    ELSE items[1] \o <<JsonP(",")>> \o JsonJoin(Tail(items))

JsonHead(tag, wire) ==
    <<JsonP("{"), JsonKey("type"), JsonP(":"), JsonKey(tag), JsonP(","),
      JsonKey("data"), JsonP(":"), JsonP("{"),
      JsonKey("ts_ns"), JsonP(":"), JsonNum(wire.ts_ns), JsonP(","),
      JsonKey("symbol"), JsonP(":"), JsonStr(wire.symbol), JsonP(",")>>

(* serde_json::to_string(&wire) *)
serde_json_to_string(wire) ==
    IF wire.type = "L2Delta"
    THEN JsonHead("l2_delta", wire)
         \o <<JsonKey("updates"), JsonP(":"), JsonP("[")>>
         \o JsonJoin([i \in DOMAIN wire.updates |-> JsonLevelUpdate(wire.updates[i])])
         \o <<JsonP("]"), JsonP("}"), JsonP("}")>>
    ELSE JsonHead("l2_snapshot", wire)
         \o <<JsonKey("bids"), JsonP(":"), JsonP("[")>>
         \o JsonJoin([i \in DOMAIN wire.bids |-> JsonLevel(wire.bids[i])])
         \o <<JsonP("]"), JsonP(","), JsonKey("asks"), JsonP(":"), JsonP("[")>>
         \o JsonJoin([i \in DOMAIN wire.asks |-> JsonLevel(wire.asks[i])])
         \o <<JsonP("]"), JsonP("}"), JsonP("}")>>

(* The tokens a LevelUpdate and a (Price, Qty) pair take *)
JsonLevelUpdateLen == Len(JsonLevelUpdate(LevelUpdate("Bid", 0, 0)))
JsonLevelLen == Len(JsonLevel(<<0, 0>>))

ParseLevelUpdate(tokens) ==
    IF /\ SubSeq(tokens, 1, 3) = <<JsonP("{"), JsonKey("side"), JsonP(":")>>
       /\ tokens[4] \in {JsonKey("bid"), JsonKey("ask")}
       /\ SubSeq(tokens, 5, 7) = <<JsonP(","), JsonKey("price"), JsonP(":")>>
       /\ tokens[8].t = "num"
       /\ SubSeq(tokens, 9, 11) = <<JsonP(","), JsonKey("qty"), JsonP(":")>>
       /\ tokens[12].t = "num"
       /\ tokens[13] = JsonP("}")
    THEN Ok(LevelUpdate(IF tokens[4] = JsonKey("bid") THEN "Bid" ELSE "Ask",
                        FromDigits(tokens[8].v), FromDigits(tokens[12].v)))
    ELSE Err("Json")

ParseLevel(tokens) ==
    IF /\ tokens[1] = JsonP("[")
       /\ tokens[2].t = "num"
       /\ tokens[3] = JsonP(",")
       /\ tokens[4].t = "num"
       /\ tokens[5] = JsonP("]")
    THEN Ok(<<FromDigits(tokens[2].v), FromDigits(tokens[4].v)>>)
    ELSE Err("Json")

(* The updates of an array, JsonLevelUpdateLen tokens each, separated by commas *)
RECURSIVE ParseLevelUpdates(_)
ParseLevelUpdates(body) ==
    IF body = <<>> THEN Ok(<<>>)
    ELSE IF Len(body) < JsonLevelUpdateLen THEN Err("Json")
    ELSE LET first == ParseLevelUpdate(SubSeq(body, 1, JsonLevelUpdateLen)) IN
         IF ~first.ok THEN first
         ELSE IF Len(body) = JsonLevelUpdateLen THEN Ok(<<first.value>>)
         ELSE IF Len(body) < JsonLevelUpdateLen + 2 \/ body[JsonLevelUpdateLen + 1] # JsonP(",") THEN Err("Json")
         ELSE LET rest == ParseLevelUpdates(SubSeq(body, JsonLevelUpdateLen + 2, Len(body))) IN
              IF ~rest.ok THEN rest ELSE Ok(<<first.value>> \o rest.value)

(* The levels of an array, JsonLevelLen tokens each, separated by commas *)
RECURSIVE ParseLevels(_)
ParseLevels(body) ==
    IF body = <<>> THEN Ok(<<>>)
    ELSE IF Len(body) < JsonLevelLen THEN Err("Json")
    ELSE LET first == ParseLevel(SubSeq(body, 1, JsonLevelLen)) IN
         IF ~first.ok THEN first
         ELSE IF Len(body) = JsonLevelLen THEN Ok(<<first.value>>)
         ELSE IF Len(body) < JsonLevelLen + 2 \/ body[JsonLevelLen + 1] # JsonP(",") THEN Err("Json")
         ELSE LET rest == ParseLevels(SubSeq(body, JsonLevelLen + 2, Len(body))) IN
              IF ~rest.ok THEN rest ELSE Ok(<<first.value>> \o rest.value)

(* serde_json::from_str::<JsonMarketEvent>(line) *)
serde_json_from_str(line) ==
    IF ~(/\ Len(line) >= 22
         /\ SubSeq(line, 1, 3) = <<JsonP("{"), JsonKey("type"), JsonP(":")>>
         /\ line[4] \in {JsonKey("l2_delta"), JsonKey("l2_snapshot")}
         /\ SubSeq(line, 5, 10)
              = <<JsonP(","), JsonKey("data"), JsonP(":"), JsonP("{"),
                  JsonKey("ts_ns"), JsonP(":")>>
         /\ line[11].t = "num"
         /\ SubSeq(line, 12, 14) = <<JsonP(","), JsonKey("symbol"), JsonP(":")>>
         /\ line[15].t = "str"
         /\ line[16] = JsonP(",")
         /\ SubSeq(line, Len(line) - 2, Len(line))
              = <<JsonP("]"), JsonP("}"), JsonP("}")>>)
    THEN Err("Json")
    ELSE
      LET ts_ns == FromDigits(line[11].v)
          symbol == JsonUnescape(line[15].v)
      IN
      IF line[4] = JsonKey("l2_delta")
      THEN IF SubSeq(line, 17, 19) # <<JsonKey("updates"), JsonP(":"), JsonP("[")>>
           THEN Err("Json")
           ELSE LET updates == ParseLevelUpdates(SubSeq(line, 20, Len(line) - 3))
                IN  IF ~updates.ok THEN updates
                    ELSE Ok(L2Delta(ts_ns, symbol, updates.value))
      ELSE IF \/ SubSeq(line, 17, 19) # <<JsonKey("bids"), JsonP(":"), JsonP("[")>>
              \/ ~\E k \in 20..(Len(line) - 5) : line[k] = JsonKey("asks")
           THEN Err("Json")
           ELSE LET k == CHOOSE k \in 20..(Len(line) - 5) : line[k] = JsonKey("asks") IN
                IF \/ k < 22
                   \/ SubSeq(line, k - 2, k + 2)
                        # <<JsonP("]"), JsonP(","), JsonKey("asks"), JsonP(":"), JsonP("[")>>
                THEN Err("Json")
                ELSE LET bids == ParseLevels(SubSeq(line, 20, k - 3))
                         asks == ParseLevels(SubSeq(line, k + 3, Len(line) - 3))
                     IN  IF ~bids.ok THEN bids
                         ELSE IF ~asks.ok THEN asks
                         ELSE Ok(L2Snapshot(ts_ns, symbol, bids.value, asks.value))

(* encode_event_json_line *)
encode_event_json_line(event, table) ==
    LET wire == JsonMarketEvent_from_core(event, table) IN
    IF ~wire.ok THEN wire ELSE Ok(serde_json_to_string(wire.value))

StripSuffix(line, c) ==
    IF line # <<>> /\ line[Len(line)] = JsonP(c)
    THEN SubSeq(line, 1, Len(line) - 1) ELSE line

(* decode_event_json_line: the table after the call and the Result *)
decode_event_json_line(line, table) ==
    LET stripped == StripSuffix(StripSuffix(line, "\n"), "\r") IN
    IF stripped = <<>> THEN [table |-> table, result |-> Err("EmptyLine")]
    ELSE LET wire == serde_json_from_str(stripped) IN
         IF ~wire.ok THEN [table |-> table, result |-> wire]
         ELSE JsonMarketEvent_into_core(wire.value, table)

(* bincode.  A record is a sequence of bytes.  Integers are little-endian
   and fixed-width; the values of the model fit the low four bytes. *)
U32LE(n) == <<n % 256, (n \div 256) % 256, (n \div 65536) % 256, (n \div 16777216) % 256>>

U64LE(n) == U32LE(n) \o <<0, 0, 0, 0>>

RECURSIVE FromLE(_)
FromLE(bytes) == IF bytes = <<>> THEN 0 ELSE Head(bytes) + 256 * FromLE(Tail(bytes))

(* The characters of the texts and their UTF-8 bytes *)
Utf8Chars == <<" ", "\"", "S", "X", "Y", "a", "b">>
Utf8Codes == <<32, 34, 83, 88, 89, 97, 98>>

Utf8Byte(c) == Utf8Codes[CHOOSE i \in DOMAIN Utf8Chars : Utf8Chars[i] = c]
Utf8Char(b) == Utf8Chars[CHOOSE i \in DOMAIN Utf8Codes : Utf8Codes[i] = b]

RECURSIVE Flatten(_)
Flatten(seqs) == IF seqs = <<>> THEN <<>> ELSE Head(seqs) \o Flatten(Tail(seqs))

SideIndex(side) == IF side = "Bid" THEN 0 ELSE 1

BinLevelUpdate(u) == U32LE(SideIndex(u.side)) \o U64LE(u.price) \o U64LE(u.qty)

BinLevel(l) == U64LE(l[1]) \o U64LE(l[2])

BinLevelUpdateLen == Len(BinLevelUpdate(LevelUpdate("Bid", 0, 0)))
BinLevelLen == Len(BinLevel(<<0, 0>>))

BinVec(items) == U64LE(Len(items)) \o Flatten(items)

(* bincode::serialize(&wire) *)
bincode_serialize(wire) ==
    U32LE(IF wire.type = "L2Delta" THEN 0 ELSE 1)
    \o U64LE(wire.ts_ns)
    \o BinVec([i \in DOMAIN wire.symbol |-> <<Utf8Byte(wire.symbol[i])>>])
    \o (IF wire.type = "L2Delta"
        THEN BinVec([i \in DOMAIN wire.updates |-> BinLevelUpdate(wire.updates[i])])
        ELSE BinVec([i \in DOMAIN wire.bids |-> BinLevel(wire.bids[i])])
             \o BinVec([i \in DOMAIN wire.asks |-> BinLevel(wire.asks[i])]))

(* The bytes from `from` on, `n` of them *)
BinTake(bytes, from, n) == SubSeq(bytes, from, from + n - 1)

ParseBinLevelUpdate(bytes) ==
    LevelUpdate(IF FromLE(BinTake(bytes, 1, 4)) = 0 THEN "Bid" ELSE "Ask",
                FromLE(BinTake(bytes, 5, 8)), FromLE(BinTake(bytes, 13, 8)))

ParseBinLevel(bytes) == <<FromLE(BinTake(bytes, 1, 8)), FromLE(BinTake(bytes, 9, 8))>>

(* bincode::deserialize::<BinMarketEvent>(payload) *)
bincode_deserialize(payload) ==
    IF Len(payload) < 20 \/ FromLE(BinTake(payload, 1, 4)) \notin {0, 1}
    THEN Err("Bincode")
    ELSE
      LET variant == FromLE(BinTake(payload, 1, 4))
          ts_ns == FromLE(BinTake(payload, 5, 8))
          symbol_len == FromLE(BinTake(payload, 13, 8))
      IN
      IF \/ Len(payload) < 20 + symbol_len + 8
         \/ \E i \in 1..symbol_len : \A j \in DOMAIN Utf8Codes : Utf8Codes[j] # payload[20 + i]
      THEN Err("Bincode")
      ELSE
        LET symbol == [i \in 1..symbol_len |-> Utf8Char(payload[20 + i])]
            rest == SubSeq(payload, 21 + symbol_len, Len(payload))
            n == FromLE(BinTake(rest, 1, 8))
        IN
        IF variant = 0
        THEN IF \/ Len(rest) # 8 + n * BinLevelUpdateLen
                \/ \E i \in 1..n :
                     FromLE(BinTake(rest, 9 + (i - 1) * BinLevelUpdateLen, 4)) \notin {0, 1}
             THEN Err("Bincode")
             ELSE Ok(L2Delta(ts_ns, symbol,
                     [i \in 1..n |->
                        ParseBinLevelUpdate(BinTake(rest, 9 + (i - 1) * BinLevelUpdateLen,
                                                    BinLevelUpdateLen))]))
        ELSE IF Len(rest) < 16 + n * BinLevelLen
             THEN Err("Bincode")
             ELSE LET asks_at == 9 + n * BinLevelLen
                      m == FromLE(BinTake(rest, asks_at, 8))
                  IN  IF Len(rest) # 16 + (n + m) * BinLevelLen
                      THEN Err("Bincode")
                      ELSE Ok(L2Snapshot(ts_ns, symbol,
                              [i \in 1..n |->
                                 ParseBinLevel(BinTake(rest, 9 + (i - 1) * BinLevelLen,
                                                       BinLevelLen))],
                              [i \in 1..m |->
                                 ParseBinLevel(BinTake(rest, asks_at + 8 + (i - 1) * BinLevelLen,
                                                       BinLevelLen))]))

(* crc32fast::hash: a checksum of the bytes that depends on each byte and on
   its place, kept below 2^16.  WeightedSum adds up the bytes lo..hi, each
   times its place, by halves. *)
RECURSIVE WeightedSum(_, _, _)
WeightedSum(bytes, lo, hi) ==
    IF lo > hi THEN 0
    ELSE IF lo = hi THEN ((bytes[lo] + 1) * lo) % 65521
    ELSE (WeightedSum(bytes, lo, (lo + hi) \div 2)
          + WeightedSum(bytes, (lo + hi) \div 2 + 1, hi)) % 65521

crc32fast_hash(bytes) == WeightedSum(bytes, 1, Len(bytes))

(* encode_event_bin_record writing the length of the whole record *)
encode_event_bin_record_len_of_record(event, table) ==
    LET wire == BinMarketEvent_from_core(event, table) IN
    IF ~wire.ok THEN wire
    ELSE LET payload == bincode_serialize(wire.value) IN
         Ok(BIN_RECORD_MAGIC \o <<BIN_RECORD_VERSION>>
            \o U32LE(BIN_RECORD_HEADER_LEN + Len(payload))
            \o U32LE(crc32fast_hash(payload)) \o payload)

(* encode_event_bin_record; the length of a payload of the model fits u32 *)
encode_event_bin_record(event, table) ==
    LET wire == BinMarketEvent_from_core(event, table) IN
    IF ~wire.ok THEN wire
    ELSE LET payload == bincode_serialize(wire.value)
             len == Len(payload)
             checksum == crc32fast_hash(payload)
         IN  Ok(BIN_RECORD_MAGIC \o <<BIN_RECORD_VERSION>>
                \o U32LE(len) \o U32LE(checksum) \o payload)

(* decode_event_bin_header *)
decode_event_bin_header(header) ==
    IF Len(header) < BIN_RECORD_HEADER_LEN THEN Err("BinaryRecordTooShort")
    ELSE IF SubSeq(header, 1, 4) # BIN_RECORD_MAGIC THEN Err("BinaryMagicMismatch")
    ELSE IF header[5] # BIN_RECORD_VERSION THEN Err("BinaryUnsupportedVersion")
    ELSE Ok([payload_len |-> FromLE(SubSeq(header, 6, 9)),
             checksum |-> FromLE(SubSeq(header, 10, 13))])

(* decode_event_bin_payload: the table after the call and the Result *)
decode_event_bin_payload(payload, table) ==
    LET wire == bincode_deserialize(payload) IN
    IF ~wire.ok THEN [table |-> table, result |-> wire]
    ELSE BinMarketEvent_into_core(wire.value, table)

(* decode_event_bin_record: the table after the call and the Result *)
decode_event_bin_record(record, table) ==
    LET header == decode_event_bin_header(record) IN
    IF ~header.ok THEN [table |-> table, result |-> header]
    ELSE LET actual == Len(record) - BIN_RECORD_HEADER_LEN
             payload == SubSeq(record, BIN_RECORD_HEADER_LEN + 1, Len(record))
         IN  IF actual # header.value.payload_len
             THEN [table |-> table, result |-> Err("BinaryLengthMismatch")]
             ELSE IF crc32fast_hash(payload) # header.value.checksum
             THEN [table |-> table, result |-> Err("BinaryChecksumMismatch")]
             ELSE decode_event_bin_payload(payload, table)

---------------------------------------------------------------------------
(* engine *)

MAX_INTENT_STEPS == 1024

NoEntry == [kind |-> "none", ts_ns |-> 0, symbol |-> BookSymbol]

(* Engine::build_context *)
build_context(b, pf, o, ts_ns, symbol) ==
    ContextSnapshot_new(ts_ns, symbol, best_bid(b), best_ask(b),
                        Portfolio_position_lots(pf, symbol), o.open_orders_count)

(* queue.extend(intents.drain(..)): the intents go to the tail, in order.
   Each carries the number of intents enqueued in this entry before it. *)
RECURSIVE queue_extend(_, _, _)
queue_extend(q, intents, enqueued) ==
    IF intents = <<>> THEN q
    ELSE queue_extend(Append(q, [intent |-> Head(intents), seq |-> enqueued + 1]),
                      Tail(intents), enqueued + 1)

(* The queue taken from the back *)
queue_pop_back(q) == [intent |-> q[Len(q)], rest |-> SubSeq(q, 1, Len(q) - 1)]

(* queue.pop_front() on a non-empty queue *)
queue_pop_front(q) == [intent |-> Head(q), rest |-> Tail(q)]

RECURSIVE Intents(_)
Intents(q) == IF q = <<>> THEN <<>> ELSE <<Head(q).intent>> \o Intents(Tail(q))

(* The context built before the report is applied *)
report_context_stale(b, pf, o, report) ==
    build_context(b, pf, o, report.ts_ns, report.symbol)

(* The body of the loop of Engine::process_reports up to the strategy call:
   the OMS, then the portfolio, then the context built from both *)
report_context(b, pf, o, report) ==
    LET oms1 == Oms_on_execution_report(o, report)
        portfolio1 == Portfolio_on_execution_report(pf, report)
    IN  build_context(b, portfolio1, oms1, report.ts_ns, report.symbol)

(* The intent handed to the OMS being the one popped from the queue *)
allowed_intent_as_queued(decision, intent) == intent

(* let intent = match decision { Allow(intent) | Transform(intent) => intent,
   .. } of handle_intent_queue, for a decision that is no Reject *)
allowed_intent(decision, intent) == decision.intent

(* The condition of the cap in handle_intent_queue never met *)
cap_reached_never(steps) == FALSE

(* processed_steps >= MAX_INTENT_STEPS *)
cap_reached(steps) == steps >= MAX_INTENT_STEPS

(* Engine::on_market_event up to the return of venue.on_book_update: the
   book, the venue and the report buffer, and whether the event applied *)
apply_and_sweep(b, v, event, keys) ==
    LET a == OrderBook_apply_delta(b, event) IN
    IF ~a.applied
    THEN [applied |-> FALSE, book |-> a.book, venue |-> v, reports |-> <<>>]
    ELSE LET r == SimVenue_on_book_update(v, a.book, keys, <<>>) IN
         [applied |-> TRUE, book |-> a.book, venue |-> r.venue, reports |-> r.out]

---------------------------------------------------------------------------
(* The OMS on its own: any intents and any reports, in any order. *)

OmsIntents ==
    {PlaceLimit(BookSymbol, s, 1, 1) : s \in Sides}
    \cup {Cancel(c) : c \in Coids}
    \cup {Replace(c, 2, 1) : c \in Coids}

OmsReports ==
    {ExecutionReport(c, st, f, 1, 0, 1, BookSymbol, "Bid") :
        c \in Coids, st \in OrderStatuses, f \in 0..MaxFill}

OmsApplyIntent(intent) ==
    /\ intent.kind = "PlaceLimit" => oms.next_id <= MaxOrders
    /\ LET r == Oms_apply_intent(oms, intent, 1) IN
         /\ oms' = r.oms
         /\ request' = r.request
    /\ omsBranch' = intent.kind
    /\ UNCHANGED <<pfVars, venueVars, engVars>>

OmsOnExecutionReport(report) ==
    /\ report.client_order_id \notin DOMAIN oms.orders
          => oms.orphan_reports < MaxOrphans
    /\ oms' = Oms_on_execution_report(oms, report)
    /\ omsBranch' = Oms_report_branch(oms, report)
    /\ request' = None
    /\ UNCHANGED <<pfVars, venueVars, engVars>>

(* The state after construction: Oms::new, Portfolio::new, OrderBook::new,
   SimVenue::new with the given <<maker_fee_ticks, taker_fee_ticks>>, and
   Engine::with_shared_book around them with the given risk policies and
   strategy *)
InitWith(fees, policies, strat, debug) ==
    /\ oms = Oms_new
    /\ request = None
    /\ omsBranch = "new"
    /\ portfolio = Portfolio_new
    /\ pfBranch = "new"
    /\ book = OrderBook_new(BookSymbol)
    /\ venue = SimVenue_new(fees[1], fees[2])
    /\ out = <<>>
    /\ venueOp = "new"
    /\ risk = policies
    /\ strategy = strat
    /\ debug_assertions = debug
    /\ symbols = SymbolTable_new
    /\ history = <<>>
    /\ replay = NoReplay
    /\ latency = 0
    /\ pc = "idle"
    /\ running = NoEntry
    /\ queue = <<>>
    /\ processed_steps = 0
    /\ ctx = None
    /\ engOp = "new"

(* The components on their own, built as the simulate command builds them *)
InitParts == InitWith(<<0, 0>>, <<>>, AnyStrategy, FALSE)

NextOms ==
    \/ \E intent \in OmsIntents : OmsApplyIntent(intent)
    \/ \E report \in OmsReports : OmsOnExecutionReport(report)

SpecOms == InitParts /\ [][NextOms]_vars

OpenEntries(o) == {c \in DOMAIN o.orders : ~is_terminal(o.orders[c].state)}

(* C1: after any sequence of apply_intent and on_execution_report calls,
   open_orders_count equals the number of entries whose state is
   non-terminal (PendingNew, Live or PendingCancel). *)
C1_OpenCountMatches == oms.open_orders_count = Cardinality(OpenEntries(oms))

(* An order went terminal through a report while another is still open. *)
C1_Witness ==
    /\ oms.open_orders_count = 1
    /\ \E c \in DOMAIN oms.orders : is_terminal(oms.orders[c].state)
    /\ omsBranch = "applied"

OmsView(o) == <<o.orders, o.open_orders_count>>

(* C2: on_execution_report is idempotent: in every reachable OMS state, for
   every report for a known client order id, applying the report twice
   leaves the same per-order state, stored cumulative filled qty and
   open_orders_count as applying it once. *)
C2_ReportIdempotent ==
    \A report \in OmsReports :
        report.client_order_id \in DOMAIN oms.orders =>
            OmsView(Oms_on_execution_report(Oms_on_execution_report(oms, report), report))
                = OmsView(Oms_on_execution_report(oms, report))

(* A report that repeats what the entry already holds (a second delivery of
   a Filled report) reached an order that an earlier report filled. *)
C2_Witness ==
    /\ omsBranch = "duplicate"
    /\ \E c \in DOMAIN oms.orders :
          oms.orders[c].state = "Filled" /\ oms.orders[c].filled_qty > 0
    /\ oms.open_orders_count = 0

(* The state the lifecycle gives an order on a report of each status *)
C12_StateOn ==
    [New |-> "PendingNew", Accepted |-> "Live", Working |-> "Live",
     PartiallyFilled |-> "Live", Canceled |-> "Canceled", Expired |-> "Canceled",
     Filled |-> "Filled", Rejected |-> "Rejected"]

(* C12: in every reachable OMS state, (a) a PlaceLimit intent creates the
   entry of the minted id in PendingNew with cumulative filled 0; (b) every
   report for a known id that is neither stale (lower cumulative qty) nor a
   no-op duplicate (same cumulative qty and same resulting state) sets the
   entry's state to the one the lifecycle gives for its status and stores
   the report's cumulative qty; (c) place, Accepted(cum=0), Filled(cum=q)
   takes the new order through PendingNew, Live, Filled, with
   open_orders_count one higher, one higher and back where it was. *)
C12_Lifecycle ==
    /\ \A intent \in OmsIntents :
          intent.kind = "PlaceLimit" =>
              LET o1 == Oms_apply_intent(oms, intent, 1).oms IN
              /\ oms.next_id \in DOMAIN o1.orders
              /\ o1.orders[oms.next_id] = [state |-> "PendingNew", filled_qty |-> 0]
    /\ \A report \in OmsReports :
          LET c == report.client_order_id IN
          (/\ c \in DOMAIN oms.orders
           /\ report.filled_qty >= oms.orders[c].filled_qty
           /\ ~(/\ report.filled_qty = oms.orders[c].filled_qty
                /\ oms.orders[c].state = C12_StateOn[report.status]))
          => Oms_on_execution_report(oms, report).orders[c]
                = [state |-> C12_StateOn[report.status],
                   filled_qty |-> report.filled_qty]
    /\ \A side \in Sides, q \in 0..MaxFill :
          LET c == oms.next_id
              o1 == Oms_apply_intent(oms, PlaceLimit(BookSymbol, side, 1, 1), 1).oms
              o2 == Oms_on_execution_report(
                        o1, ExecutionReport(c, "Accepted", 0, 1, 0, 1, BookSymbol, side))
              o3 == Oms_on_execution_report(
                        o2, ExecutionReport(c, "Filled", q, 1, 0, 2, BookSymbol, side))
          IN  /\ o1.orders[c].state = "PendingNew"
              /\ o2.orders[c].state = "Live"
              /\ o3.orders[c].state = "Filled"
              /\ o3.orders[c].filled_qty = q
              /\ o1.open_orders_count = oms.open_orders_count + 1
              /\ o2.open_orders_count = oms.open_orders_count + 1
              /\ o3.open_orders_count = oms.open_orders_count

(* The only order placed was filled by a report that carried a cumulative
   qty: its entry is Filled and no order is open *)
C12_Witness ==
    /\ omsBranch = "applied"
    /\ oms.next_id = 2
    /\ oms.orders[1] = [state |-> "Filled", filled_qty |-> MaxFill]
    /\ oms.open_orders_count = 0

C13_FilledNeverDecreases ==
    \A c \in DOMAIN oms.orders :
        /\ c \in DOMAIN oms'.orders
        /\ oms'.orders[c].filled_qty >= oms.orders[c].filled_qty

(* C13: over any sequence of intents and reports the cumulative filled qty
   the OMS stores for a client order id never decreases; and in every
   reachable state a report of any status whose cumulative filled qty is
   lower than the stored one leaves the OMS as it was: the entry's state,
   its filled qty and open_orders_count are unchanged. *)
C13_StaleReportIgnored ==
    /\ [][C13_FilledNeverDecreases]_vars
    /\ [](\A report \in OmsReports :
            LET c == report.client_order_id IN
            (c \in DOMAIN oms.orders /\ report.filled_qty < oms.orders[c].filled_qty)
                => Oms_on_execution_report(oms, report) = oms)

(* A report with a lower cumulative qty reached an order that is Live with
   a partial fill recorded *)
C13_Witness ==
    /\ omsBranch = "stale"
    /\ \E c \in DOMAIN oms.orders :
          oms.orders[c] = [state |-> "Live", filled_qty |-> MaxFill]
    /\ oms.open_orders_count > 0

C14_Mint ==
    IF omsBranch' = "PlaceLimit"
    THEN /\ IsSome(request')
         /\ Unwrap(request').kind = "Place"
         /\ Unwrap(request').client_order_id = oms.next_id
         /\ \A c \in DOMAIN oms.orders : c < Unwrap(request').client_order_id
         /\ oms'.next_id = oms.next_id + 1
    ELSE oms'.next_id = oms.next_id

(* C14: the ids the OMS mints strictly increase and are never reused: every
   id it holds is below next_id; a PlaceLimit intent is given the id
   next_id, which is greater than every id minted before, and moves next_id
   up by one; a Cancel intent, a Replace intent or an execution report
   leaves next_id as it was. *)
C14_IdsStrictlyIncrease ==
    /\ [](\A c \in DOMAIN oms.orders : c < oms.next_id)
    /\ [][C14_Mint]_vars

(* The second id was minted after a report had closed the first order *)
C14_Witness ==
    /\ omsBranch = "PlaceLimit"
    /\ IsSome(request)
    /\ Unwrap(request).kind = "Place"
    /\ Unwrap(request).client_order_id = 2
    /\ oms.next_id = 3
    /\ is_terminal(oms.orders[1].state)

C15_OrphanStep ==
    omsBranch' = "orphan" =>
        oms' = [oms EXCEPT !.orphan_reports = oms.orphan_reports + 1]

(* C15: in every reachable OMS state a report of any status for a client
   order id the OMS does not know gives an OMS that differs in
   orphan_reports alone, which is one higher: no entry is created, every
   existing entry and open_orders_count are as before; and so does every
   step that takes the orphan return. *)
C15_OrphanCounted ==
    /\ [](\A report \in OmsReports :
            report.client_order_id \notin DOMAIN oms.orders =>
                LET o1 == Oms_on_execution_report(oms, report) IN
                /\ o1.orphan_reports = oms.orphan_reports + 1
                /\ DOMAIN o1.orders = DOMAIN oms.orders
                /\ o1.orders = oms.orders
                /\ o1.open_orders_count = oms.open_orders_count)
    /\ [][C15_OrphanStep]_vars

(* A report for the id 2 arrived while the OMS held only the order 1, still
   open *)
C15_Witness ==
    /\ omsBranch = "orphan"
    /\ oms.orphan_reports = 1
    /\ DOMAIN oms.orders = {1}
    /\ oms.open_orders_count = 1


C32_Intents ==
    {Cancel(c) : c \in Coids}
    \cup {Replace(c, p, q) : c \in Coids, p \in Prices, q \in Qtys}

C32_Request(intent) ==
    IF intent.kind = "Cancel"
    THEN [kind |-> "Cancel", client_order_id |-> intent.client_order_id, ts_ns |-> 1]
    ELSE [kind |-> "Replace", client_order_id |-> intent.client_order_id,
          new_price |-> intent.new_price, new_qty |-> intent.new_qty, ts_ns |-> 1]

(* C32: apply_intent for a Cancel or a Replace, in whatever state the Oms
   is, leaves open_orders_count, next_id, orphan_reports, the set of entries
   and every cumulative filled quantity as they were; for an unknown client
   order id it returns no request and changes nothing; for a known one it
   returns the request, and the entry's state becomes PendingCancel
   (Cancel) or PendingNew (Replace) when it was not terminal and stays as it
   was when it was terminal *)
C32_CancelReplaceFrame ==
    \A intent \in C32_Intents :
        LET r == Oms_apply_intent(oms, intent, 1)
            c == intent.client_order_id
        IN
        /\ r.oms.open_orders_count = oms.open_orders_count
        /\ r.oms.next_id = oms.next_id
        /\ r.oms.orphan_reports = oms.orphan_reports
        /\ DOMAIN r.oms.orders = DOMAIN oms.orders
        /\ \A k \in DOMAIN oms.orders :
              /\ r.oms.orders[k].filled_qty = oms.orders[k].filled_qty
              /\ k # c => r.oms.orders[k].state = oms.orders[k].state
        /\ IF c \notin DOMAIN oms.orders
           THEN r.request = None /\ r.oms = oms
           ELSE /\ r.request = Some(C32_Request(intent))
                /\ r.oms.orders[c].state =
                     IF is_terminal(oms.orders[c].state) THEN oms.orders[c].state
                     ELSE IF intent.kind = "Cancel" THEN "PendingCancel"
                     ELSE "PendingNew"

(* A Cancel of a partially filled order and of a Filled one have both
   returned their request: order 1 is PendingCancel with its filled quantity
   kept, and order 2 is still Filled *)
C32_Witness ==
    /\ omsBranch = "Cancel"
    /\ IsSome(request)
    /\ Unwrap(request).kind = "Cancel"
    /\ DOMAIN oms.orders = {1, 2}
    /\ oms.orders[1].state = "PendingCancel"
    /\ oms.orders[1].filled_qty = 1
    /\ oms.orders[2].state = "Filled"
    /\ Unwrap(request).client_order_id = 2
    /\ oms.open_orders_count = 1

---------------------------------------------------------------------------
(* The portfolio on its own: any reports, in any order. *)

Symbols == {BookSymbol, OtherSymbol}

PfCoids == {1, 2}

(* Reports with a fill status carry every combination of the fields the
   portfolio reads; for the other statuses it reads the client order id
   alone.  The second symbol trades at one price and without fees. *)
PfReports ==
    {ExecutionReport(c, st, f, px, fee, 1, BookSymbol, side) :
        c \in PfCoids, st \in {"Filled", "PartiallyFilled"}, f \in 0..MaxQty,
        px \in Prices, fee \in {0, 1}, side \in Sides}
    \cup {ExecutionReport(c, "Filled", f, 1, 0, 1, OtherSymbol, side) :
        c \in PfCoids, f \in 1..MaxQty, side \in Sides}
    \cup {ExecutionReport(c, st, 0, 1, 0, 1, BookSymbol, "Bid") :
        c \in PfCoids, st \in OrderStatuses \ {"Filled", "PartiallyFilled"}}

SumOver(p, F(_)) ==
    F(PositionOrDefault(p, BookSymbol)) + F(PositionOrDefault(p, OtherSymbol))

AbsPosition(pos) == Abs(pos.position_lots)
AbsRealized(pos) == Abs(pos.realized_pnl_ticks)
FeesPaid(pos) == pos.fees_paid_ticks

PortfolioWithinBounds(p) ==
    /\ SumOver(p, AbsPosition) <= MaxPos
    /\ SumOver(p, AbsRealized) <= MaxPnl
    /\ SumOver(p, FeesPaid) <= MaxFees

PortfolioOnExecutionReport(report) ==
    /\ PortfolioWithinBounds(Portfolio_on_execution_report(portfolio, report))
    /\ portfolio' = Portfolio_on_execution_report(portfolio, report)
    /\ pfBranch' = Portfolio_report_branch(portfolio, report)
    /\ UNCHANGED <<omsVars, venueVars, engVars>>

NextPortfolio == \E report \in PfReports : PortfolioOnExecutionReport(report)

SpecPortfolio == InitParts /\ [][NextPortfolio]_vars

(* C5: after any sequence of Portfolio::on_execution_report calls, for every
   symbol, position_lots = 0 if and only if avg_entry_price_ticks is
   absent. *)
C5_FlatIffNoAvgEntry ==
    \A sym \in Symbols :
        (Portfolio_position_lots(portfolio, sym) = 0)
            <=> (Portfolio_avg_entry(portfolio, sym) = None)

(* A position was opened and then closed by a fill at another price (so
   P&L was realized), while the other symbol still holds a position. *)
C5_Witness ==
    /\ pfBranch = "fill"
    /\ BookSymbol \in DOMAIN portfolio.positions
    /\ portfolio.positions[BookSymbol].position_lots = 0
    /\ portfolio.positions[BookSymbol].realized_pnl_ticks # 0
    /\ portfolio.positions[BookSymbol].avg_entry_price_ticks = None
    /\ Portfolio_position_lots(portfolio, OtherSymbol) # 0

(* The cumulative quantities of n reports in a row: they never decrease *)
C16_Cums(n) ==
    {f \in [1..n -> 0..MaxQty] : \A i, j \in 1..n : i <= j => f[i] <= f[j]}

(* The report sequences of one order: PartiallyFilled reports and then a
   Filled one, the i-th with the cumulative qty cums[i] and at the price i
   (or the highest price) *)
C16_Sequences(coid, side) ==
    UNION {{[i \in 1..n |->
               ExecutionReport(coid, IF i = n THEN "Filled" ELSE "PartiallyFilled",
                               cums[i], Min(i, MaxPrice), 0, i, BookSymbol, side)] :
            cums \in C16_Cums(n)} : n \in 1..MaxReports}

RECURSIVE C16_ApplyAll(_, _)
C16_ApplyAll(p, reports) ==
    IF reports = <<>> THEN p
    ELSE C16_ApplyAll(Portfolio_on_execution_report(p, Head(reports)), Tail(reports))

(* C16: the portfolio derives fills from cumulative quantities.  In every
   reachable state, for a client order id it has no quantity recorded for,
   either side and every sequence of PartiallyFilled reports with
   non-decreasing cumulative qty ended by a Filled report, the position
   after the sequence differs from the position before by the side-signed
   final cumulative qty; and a report whose cumulative qty does not exceed
   the one recorded for its id leaves position, realized P&L and fees of
   every symbol as they were. *)
C16_CumulativeFills ==
    /\ \A coid \in PfCoids, side \in Sides :
          coid \notin DOMAIN portfolio.filled_by_order =>
              \A reports \in C16_Sequences(coid, side) :
                  Portfolio_position_lots(C16_ApplyAll(portfolio, reports), BookSymbol)
                      = Portfolio_position_lots(portfolio, BookSymbol)
                        + (IF side = "Bid" THEN 1 ELSE -1)
                          * reports[Len(reports)].filled_qty
    /\ \A report \in PfReports :
          report.filled_qty <= PrevFilled(portfolio, report.client_order_id) =>
              Portfolio_on_execution_report(portfolio, report).positions
                  = portfolio.positions

(* A report whose cumulative qty did not exceed the partial fill recorded
   for its order was absorbed: the partial fill is still on record and the
   position it opened is still held *)
C16_Witness ==
    /\ pfBranch = "no_delta"
    /\ 1 \in DOMAIN portfolio.filled_by_order
    /\ portfolio.filled_by_order[1] = 1
    /\ Portfolio_position_lots(portfolio, BookSymbol) = 1

(* C17: in every reachable portfolio state, for every report that carries a
   fill (a cumulative qty above the recorded one): if the fill is on the
   opposite side of a non-zero position, realized P&L grows by exactly
   (fill_price - avg_entry) * close_qty for a long position and by
   (avg_entry - fill_price) * close_qty for a short one, with close_qty the
   smaller of |fill qty| and |position|; a fill that opens or adds to a
   position leaves realized P&L as it was; and the report's fee is added to
   fees_paid_ticks and never enters realized P&L. *)
C17_RealizedPnl ==
    \A report \in PfReports :
        Portfolio_report_branch(portfolio, report) = "fill" =>
            LET before == PositionOrDefault(portfolio, report.symbol)
                after == Portfolio_on_execution_report(portfolio, report)
                             .positions[report.symbol]
                fill_qty == report.filled_qty
                              - PrevFilled(portfolio, report.client_order_id)
                position == before.position_lots
                closing == \/ position > 0 /\ report.side = "Ask"
                           \/ position < 0 /\ report.side = "Bid"
                close_qty == IF fill_qty <= Abs(position) THEN fill_qty
                             ELSE Abs(position)
            IN  /\ closing =>
                      /\ IsSome(before.avg_entry_price_ticks)
                      /\ after.realized_pnl_ticks - before.realized_pnl_ticks
                            = IF position > 0
                              THEN (report.last_fill_price
                                      - Unwrap(before.avg_entry_price_ticks)) * close_qty
                              ELSE (Unwrap(before.avg_entry_price_ticks)
                                      - report.last_fill_price) * close_qty
                /\ ~closing => after.realized_pnl_ticks = before.realized_pnl_ticks
                /\ after.fees_paid_ticks = before.fees_paid_ticks + report.fee_ticks

(* A fill on the opposite side of a position realized a profit of one
   tick and a fee of one tick was paid: the fee is on its own account, the
   profit is whole, and a short position is held *)
C17_Witness ==
    /\ pfBranch = "fill"
    /\ BookSymbol \in DOMAIN portfolio.positions
    /\ portfolio.positions[BookSymbol].position_lots = -1
    /\ portfolio.positions[BookSymbol].realized_pnl_ticks = 1
    /\ portfolio.positions[BookSymbol].fees_paid_ticks = 1
    /\ portfolio.positions[BookSymbol].avg_entry_price_ticks = Some(2)


(* The average entry price the statement of C34 gives after a fill of
   signed_qty at fill_price on the position pos *)
C34_Expected(pos, signed_qty, fill_price) ==
    LET new_position == pos.position_lots + signed_qty IN
    IF new_position = 0 THEN None
    ELSE IF pos.position_lots = 0 \/ signum(pos.position_lots) = signum(signed_qty)
    THEN Some(((IF IsSome(pos.avg_entry_price_ticks)
                THEN Unwrap(pos.avg_entry_price_ticks) ELSE fill_price)
                 * Abs(pos.position_lots)
               + fill_price * Abs(signed_qty))
              \div (Abs(pos.position_lots) + Abs(signed_qty)))
    ELSE IF signum(new_position) # signum(pos.position_lots) THEN Some(fill_price)
    ELSE pos.avg_entry_price_ticks

(* C34: after a fill the average entry price is absent when the new
   position is 0, the quantity-weighted average (integer division) of the
   old average and the fill price when the fill opens or adds to the
   position, the fill price when the sign of the position flipped, and
   unchanged when the fill reduces the position without closing or flipping
   it *)
C34_AvgEntry ==
    \A report \in PfReports :
        Portfolio_report_branch(portfolio, report) = "fill" =>
            LET pos == PositionOrDefault(portfolio, report.symbol)
                delta_qty == report.filled_qty
                               - PrevFilled(portfolio, report.client_order_id)
                signed_qty == IF report.side = "Bid" THEN delta_qty ELSE -delta_qty
                after == Portfolio_on_execution_report(portfolio, report)
            IN  after.positions[report.symbol].avg_entry_price_ticks
                  = C34_Expected(pos, signed_qty, report.last_fill_price)

(* the portfolio after the report has been delivered once more *)
C39_Again(p, report) == Portfolio_on_execution_report(p, report)

(* C39 as stated: a Filled report delivered a second time leaves the
   portfolio as the first delivery left it *)
C39_FilledTwiceOnce ==
    \A report \in PfReports :
        report.status = "Filled" =>
            LET once == Portfolio_on_execution_report(portfolio, report) IN
            C39_Again(once, report) = once

(* C39, amended: a PartiallyFilled report delivered a second time leaves
   the portfolio as the first delivery left it; a Filled report drops the
   cumulative entry of its order, so a second delivery of a Filled report
   with filled_qty > 0 is applied as a fill of the whole quantity: the
   position moves by +filled_qty (bid) or -filled_qty (ask) again and
   fee_ticks is paid again *)
C39_OnlyPartialTwiceOnce ==
    \A report \in PfReports :
        LET once == Portfolio_on_execution_report(portfolio, report)
            twice == C39_Again(once, report)
            signed == IF report.side = "Bid" THEN report.filled_qty
                      ELSE -report.filled_qty
        IN  /\ report.status = "PartiallyFilled" => twice = once
            /\ (report.status = "Filled" /\ report.filled_qty > 0) =>
                 /\ Portfolio_position_lots(twice, report.symbol) =
                        Portfolio_position_lots(once, report.symbol) + signed
                 /\ Portfolio_fees_paid_ticks(twice, report.symbol) =
                        Portfolio_fees_paid_ticks(once, report.symbol) + report.fee_ticks

(* Order 1 is partly filled (one lot bought, one fee paid); its Filled
   report for two lots takes the position to 2 on the first delivery and
   to 4 on the second *)
C39_Witness ==
    /\ pfBranch = "fill"
    /\ portfolio.filled_by_order = MapInsert(Portfolio_new.filled_by_order, 1, 1)
    /\ Portfolio_position_lots(portfolio, BookSymbol) = 1
    /\ LET report == ExecutionReport(1, "Filled", 2, 1, 1, 1, BookSymbol, "Bid")
           once == Portfolio_on_execution_report(portfolio, report)
       IN  /\ Portfolio_position_lots(once, BookSymbol) = 2
           /\ Portfolio_position_lots(C39_Again(once, report), BookSymbol) = 4

---------------------------------------------------------------------------
(* The book and the venue on their own: any deltas, any requests with any
   client order ids in any order, and a sweep at any time. *)

BookDeltas ==
    {L2Delta(1, BookSymbol, <<LevelUpdate(sd, p, q)>>) :
        sd \in Sides, p \in Prices, q \in LevelQtys}
    \cup {L2Delta(1, BookSymbol, <<LevelUpdate("Bid", p, 1), LevelUpdate("Ask", p, 0)>>) :
            p \in Prices}
    \cup {L2Delta(1, OtherSymbol, <<LevelUpdate("Ask", 1, 1)>>)}

VenuePlace(coid, side, price, qty) ==
    [kind |-> "Place", client_order_id |-> coid, symbol |-> BookSymbol,
     side |-> side, order_type |-> "Limit", price |-> Some(price), qty |-> qty,
     tif |-> "Gtc"]

VenueRequests ==
    {VenuePlace(c, sd, p, q) : c \in Coids, sd \in Sides, p \in Prices, q \in Qtys}
    \cup {[kind |-> "Cancel", client_order_id |-> c, ts_ns |-> 1] : c \in Coids}
    \cup {[kind |-> "Replace", client_order_id |-> c, new_price |-> p,
           new_qty |-> q, ts_ns |-> 1] : c \in Coids, p \in Prices, q \in Qtys}

(* out.clear(); venue.submit(&req, &mut out) *)
VenueSubmit(req) ==
    LET r == SimVenue_submit(venue, book, req, <<>>) IN
    /\ r.venue.next_ts_ns <= MaxVenueTs + 1
    /\ venue' = r.venue
    /\ out' = r.out
    /\ venueOp' = "submit"
    /\ UNCHANGED <<book, omsVars, pfVars, engVars>>

(* if book.borrow_mut().apply(&event) { out.clear();
   venue.on_book_update(&mut out) }, with `keys` the order in which the
   venue's live_orders.keys() yields the ids *)
VenueMarketEvent(event, keys) ==
    LET applied == OrderBook_apply_delta(book, event)
        r == IF applied.applied
             THEN SimVenue_on_book_update(venue, applied.book, keys, <<>>)
             ELSE [venue |-> venue, out |-> out]
    IN
    /\ r.venue.next_ts_ns <= MaxVenueTs + 1
    /\ book' = applied.book
    /\ venue' = r.venue
    /\ out' = r.out
    /\ venueOp' = IF applied.applied THEN "on_book_update" ELSE "not_applied"
    /\ UNCHANGED <<omsVars, pfVars, engVars>>

InitVenue == InitWith(<<1, 2>>, <<>>, AnyStrategy, FALSE)

NextVenue ==
    \/ \E event \in BookDeltas, keys \in KeyOrders(venue.live_orders) :
          VenueMarketEvent(event, keys)
    \/ \E req \in VenueRequests : VenueSubmit(req)

SpecVenue == InitVenue /\ [][NextVenue]_vars

(* C3: after SimVenue.on_book_update, whatever orders rest and in whatever
   order the live-order map yields them, the reports appended to the output
   are all Filled and their client order ids strictly ascend. *)
C3_FillsAscending ==
    venueOp = "on_book_update" =>
        /\ \A i \in DOMAIN out : out[i].status = "Filled"
        /\ \A i, j \in DOMAIN out :
              i < j => out[i].client_order_id < out[j].client_order_id

(* A sweep that filled two resting orders at once *)
C3_Witness ==
    /\ venueOp = "on_book_update"
    /\ Len(out) = 2
    /\ out[1].status = "Filled" /\ out[2].status = "Filled"
    /\ out[1].client_order_id # out[2].client_order_id

(* Whether a resting order's limit crosses the top of book b: a bid at or
   above the best ask, an ask at or below the best bid *)
Crosses(order, b) ==
    /\ IsSome(order.price)
    /\ IF order.side = "Bid"
       THEN DOMAIN b.asks # {} /\ Unwrap(order.price) >= MinOf(DOMAIN b.asks)
       ELSE DOMAIN b.bids # {} /\ Unwrap(order.price) <= Max(DOMAIN b.bids)

OppositeTop(order, b) ==
    IF order.side = "Bid" THEN MinOf(DOMAIN b.asks) ELSE Max(DOMAIN b.bids)

C10_Sweep ==
    venueOp' = "on_book_update" =>
      LET resting == venue.live_orders
          crossing == {c \in DOMAIN resting : Crosses(resting[c], book')}
          ReportsOf(c) == {i \in DOMAIN out' : out'[i].client_order_id = c}
      IN  Cardinality(crossing) < MAX_PASSIVE_FILLS_PER_EVENT =>
            /\ DOMAIN venue'.live_orders = DOMAIN resting \ crossing
            /\ \A c \in DOMAIN resting \ crossing :
                  /\ venue'.live_orders[c] = resting[c]
                  /\ ReportsOf(c) = {}
            /\ \A c \in crossing :
                  /\ Cardinality(ReportsOf(c)) = 1
                  /\ \A i \in ReportsOf(c) :
                        /\ out'[i].status = "Filled"
                        /\ out'[i].filled_qty = resting[c].qty
                        /\ out'[i].last_fill_price = OppositeTop(resting[c], book')
                        /\ out'[i].fee_ticks = venue.maker_fee_ticks
                        /\ out'[i].side = resting[c].side

(* C10: a step of SimVenue.on_book_update in which fewer than
   MAX_PASSIVE_FILLS_PER_EVENT resting orders cross the top of book removes
   each crossing order and reports it Filled exactly once, for its full
   quantity, at the opposite best price and with the maker fee; each other
   resting order stays as it was and has no report. *)
C10_SweepFillsCrossing == [][C10_Sweep]_vars

(* A sweep that filled one resting order of two lots, with the maker fee,
   and left another one resting *)
C10_Witness ==
    /\ venueOp = "on_book_update"
    /\ Len(out) = 1
    /\ out[1].status = "Filled"
    /\ out[1].filled_qty = 2
    /\ out[1].fee_ticks = venue.maker_fee_ticks
    /\ venue.maker_fee_ticks # venue.taker_fee_ticks
    /\ DOMAIN venue.live_orders # {}

(* C11: in every state the venue and the book can be in, submitting a Place
   of a priced limit order emits an Accepted report first, with cumulative
   filled 0 and fee 0; the order crosses iff it is a bid with limit >= best
   ask or an ask with limit <= best bid; if it crosses, exactly one Filled
   report follows, with the full order qty, the opposite top-of-book price
   and the taker fee, and live_orders is left as it was; if it does not
   cross, no further report is emitted and the order is inserted into
   live_orders. *)
C11_PlaceAcceptedThenFill ==
    \A req \in VenueRequests :
        req.kind = "Place" =>
            LET r == SimVenue_submit(venue, book, req, <<>>)
                order == [symbol |-> req.symbol, side |-> req.side,
                          price |-> req.price, qty |-> req.qty]
            IN  /\ Len(r.out) >= 1
                /\ r.out[1].status = "Accepted"
                /\ r.out[1].client_order_id = req.client_order_id
                /\ r.out[1].filled_qty = 0
                /\ r.out[1].fee_ticks = 0
                /\ IF Crosses(order, book)
                   THEN /\ Len(r.out) = 2
                        /\ r.out[2].status = "Filled"
                        /\ r.out[2].client_order_id = req.client_order_id
                        /\ r.out[2].filled_qty = req.qty
                        /\ r.out[2].last_fill_price = OppositeTop(order, book)
                        /\ r.out[2].fee_ticks = venue.taker_fee_ticks
                        /\ r.venue.live_orders = venue.live_orders
                   ELSE /\ Len(r.out) = 1
                        /\ r.venue.live_orders
                              = MapInsert(venue.live_orders, req.client_order_id, order)

(* The first request a venue ever answered (its reports carry the
   timestamps 1 and 2) was a Place of two lots that crossed the book: it was
   accepted, filled with the taker fee and not stored.  A Cancel or a
   Replace of a venue that holds no order emits nothing. *)
C11_Witness ==
    /\ venueOp = "submit"
    /\ Len(out) = 2
    /\ out[1].status = "Accepted" /\ out[1].ts_ns = 1
    /\ out[2].status = "Filled" /\ out[2].ts_ns = 2
    /\ out[2].filled_qty = 2
    /\ out[2].fee_ticks = venue.taker_fee_ticks
    /\ venue.taker_fee_ticks # venue.maker_fee_ticks
    /\ venue.live_orders = EmptyMap

(* The reference model of a book: for each side the quantity at every
   price, 0 where there is no level *)
C18_Reference(b) ==
    [Bid |-> [p \in Prices |-> IF p \in DOMAIN b.bids THEN b.bids[p] ELSE 0],
     Ask |-> [p \in Prices |-> IF p \in DOMAIN b.asks THEN b.asks[p] ELSE 0]]

(* The reference model after the updates: each assigns its quantity *)
RECURSIVE C18_ReferenceApply(_, _)
C18_ReferenceApply(ref, updates) ==
    IF updates = <<>> THEN ref
    ELSE C18_ReferenceApply(
             [ref EXCEPT ![Head(updates).side][Head(updates).price] = Head(updates).qty],
             Tail(updates))

C18_Levels(levels) == {p \in Prices : levels[p] > 0}

(* C18: the book refines a reference ordered map.  It starts empty; in
   every state a sequence of L2Delta events leads to, every level it holds
   has a price of the reference and a quantity above 0, so the book and its
   reference determine each other; applying any L2Delta for its symbol
   gives the book whose reference is the old reference with every update's
   quantity assigned in order (0 removes the level); best_bid is the highest
   bid price of the reference with its quantity and best_ask the lowest ask
   price with its quantity, or none when the side is empty. *)
C18_BookRefinesReference ==
    LET ref == C18_Reference(book) IN
    /\ DOMAIN book.bids \subseteq Prices /\ DOMAIN book.asks \subseteq Prices
    /\ \A p \in DOMAIN book.bids : book.bids[p] > 0
    /\ \A p \in DOMAIN book.asks : book.asks[p] > 0
    /\ \A event \in BookDeltas :
          event.symbol = book.symbol =>
              /\ OrderBook_apply_delta(book, event).applied
              /\ C18_Reference(OrderBook_apply_delta(book, event).book)
                    = C18_ReferenceApply(ref, event.updates)
    /\ best_bid(book)
          = IF C18_Levels(ref.Bid) = {} THEN None
            ELSE LET top == CHOOSE p \in C18_Levels(ref.Bid) :
                                \A q \in C18_Levels(ref.Bid) : q <= p
                 IN  Some(<<top, ref.Bid[top]>>)
    /\ best_ask(book)
          = IF C18_Levels(ref.Ask) = {} THEN None
            ELSE LET top == CHOOSE p \in C18_Levels(ref.Ask) :
                                \A q \in C18_Levels(ref.Ask) : p <= q
                 IN  Some(<<top, ref.Ask[top]>>)

(* Deltas built two bid levels and an ask level above them *)
C18_Witness ==
    /\ venueOp = "on_book_update"
    /\ DOMAIN book.bids = {1, 2}
    /\ DOMAIN book.asks = {MaxPrice}
    /\ best_bid(book) = Some(<<2, book.bids[2]>>)
    /\ best_ask(book) = Some(<<MaxPrice, book.asks[MaxPrice]>>)

(* C21: in every state the venue can be in, submitting a Cancel for a
   resting order removes that order from live_orders, leaves the others, and
   emits exactly one report, Canceled with cumulative filled 0 and fee 0;
   submitting a Cancel for a client order id that is not resting emits no
   report and leaves the venue, its next timestamp included, as it was. *)
C21_CancelRestingOnly ==
    \A req \in VenueRequests :
        req.kind = "Cancel" =>
            LET r == SimVenue_submit(venue, book, req, <<>>)
                c == req.client_order_id
            IN  IF c \in DOMAIN venue.live_orders
                THEN /\ DOMAIN r.venue.live_orders = DOMAIN venue.live_orders \ {c}
                     /\ \A k \in DOMAIN r.venue.live_orders :
                           r.venue.live_orders[k] = venue.live_orders[k]
                     /\ Len(r.out) = 1
                     /\ r.out[1].status = "Canceled"
                     /\ r.out[1].client_order_id = c
                     /\ r.out[1].filled_qty = 0
                     /\ r.out[1].fee_ticks = 0
                     /\ r.venue.next_ts_ns = venue.next_ts_ns + 1
                ELSE /\ r.out = <<>>
                     /\ r.venue = venue

(* A resting order was cancelled while another one stays resting *)
C21_Witness ==
    /\ venueOp = "submit"
    /\ Len(out) = 1
    /\ out[1].status = "Canceled"
    /\ out[1].client_order_id \notin DOMAIN venue.live_orders
    /\ DOMAIN venue.live_orders # {}

(* The reports and the venue after a Place of a limit order with the id and
   the side of the resting order `c` at the new price and quantity, once the
   resting order has been removed *)
C30_AsPlace(c, new_price, new_qty) ==
    SimVenue_submit([venue EXCEPT !.live_orders = MapRemove(venue.live_orders, c)],
                    book,
                    VenuePlace(c, venue.live_orders[c].side, new_price, new_qty),
                    <<>>)

(* C30: in every state the venue can be in, submitting a Replace for a
   resting order gives the reports a Place of a limit order with the same
   client order id, side and symbol at new_price and new_qty gives, one for
   one with the same status, cumulative filled quantity, last_fill_price and
   fee, and leaves the same live_orders. *)
C30_ReplaceAsPlace ==
    \A req \in VenueRequests :
        (req.kind = "Replace" /\ req.client_order_id \in DOMAIN venue.live_orders) =>
            LET rp == SimVenue_submit(venue, book, req, <<>>)
                pl == C30_AsPlace(req.client_order_id, req.new_price, req.new_qty)
            IN  /\ Len(rp.out) = Len(pl.out)
                /\ \A i \in 1..Len(rp.out) :
                      /\ rp.out[i].status = pl.out[i].status
                      /\ rp.out[i].filled_qty = pl.out[i].filled_qty
                      /\ rp.out[i].last_fill_price = pl.out[i].last_fill_price
                      /\ rp.out[i].fee_ticks = pl.out[i].fee_ticks
                /\ rp.venue.live_orders = pl.venue.live_orders


(* Market orders as a caller of SimVenue::submit may build them: with or
   without a price *)
C31_MarketOrders ==
    {[VenuePlace(c, sd, 1, q) EXCEPT !.order_type = "Market", !.price = price] :
        c \in Coids, sd \in Sides, q \in Qtys,
        price \in {None} \cup {Some(p) : p \in Prices}}

C31_OppositeAbsent(order) ==
    IF order.side = "Bid" THEN ~IsSome(best_ask(book)) ELSE ~IsSome(best_bid(book))

(* C31: a Market order submitted when the opposite top of book is absent,
   under a client order id that does not rest already, either rests in
   live_orders afterwards or is answered with a Rejected report *)
C31_MarketRestsOrRejected ==
    \A order \in C31_MarketOrders :
        (C31_OppositeAbsent(order) /\ order.client_order_id \notin DOMAIN venue.live_orders) =>
            LET r == SimVenue_submit(venue, book, order, <<>>) IN
            \/ order.client_order_id \in DOMAIN r.venue.live_orders
            \/ \E k \in DOMAIN r.out : r.out[k].status = "Rejected"

---------------------------------------------------------------------------
(* The book on its own: any deltas and any snapshots, in any order. *)

(* The levels a snapshot supplies for one side: none, one level of any
   price and quantity (0 included), or the lowest and the highest price *)
SnapshotLevels ==
    {<<>>}
    \cup {<<<<p, q>>>> : p \in Prices, q \in LevelQtys}
    \cup {<<<<1, q[1]>>, <<MaxPrice, q[2]>>>> : q \in {<<1, 1>>, <<0, 1>>, <<1, 0>>}}

BookSnapshots ==
    {L2Snapshot(1, BookSymbol, bids, asks) :
        bids \in SnapshotLevels, asks \in SnapshotLevels}
    \cup {L2Snapshot(1, OtherSymbol, <<<<1, 1>>>>, <<<<2, 1>>>>)}

(* book.apply(&event) *)
BookApply(event) ==
    LET a == OrderBook_apply(book, event) IN
    /\ book' = a.book
    /\ venueOp' = IF a.applied THEN event.type ELSE "not_applied"
    /\ UNCHANGED <<venue, out, omsVars, pfVars, engVars>>

NextBook == \E event \in BookDeltas \cup BookSnapshots : BookApply(event)

SpecBook == InitParts /\ [][NextBook]_vars

C19_LevelsOf(side) == {<<p, side[p]>> : p \in DOMAIN side}

C19_Supplied(levels) == {levels[i] : i \in {j \in DOMAIN levels : levels[j][2] # 0}}

(* C19: whatever levels the book holds, applying an L2Snapshot for its
   symbol returns true and leaves as bids exactly the supplied bid levels
   with non-zero qty and as asks exactly the supplied ask levels with
   non-zero qty: a level the book held before is there afterwards only if
   the snapshot lists its price. *)
C19_SnapshotReplaces ==
    \A event \in BookSnapshots :
        event.symbol = book.symbol =>
            LET a == OrderBook_apply(book, event) IN
            /\ a.applied
            /\ C19_LevelsOf(a.book.bids) = C19_Supplied(event.bids)
            /\ C19_LevelsOf(a.book.asks) = C19_Supplied(event.asks)
            /\ \A p \in DOMAIN a.book.bids : \E i \in DOMAIN event.bids : event.bids[i][1] = p
            /\ \A p \in DOMAIN a.book.asks : \E i \in DOMAIN event.asks : event.asks[i][1] = p

(* A snapshot left the book with one bid level and no ask: the snapshot
   supplied no ask, or none with a quantity *)
C19_Witness ==
    /\ venueOp = "L2Snapshot"
    /\ DOMAIN book.bids = {1}
    /\ book.asks = EmptyMap

---------------------------------------------------------------------------
(* The risk engine on its own: a pipeline of policies, and evaluations of
   any intent under any context, the timestamps in any order. *)

MaxCalls == 3

(* The last nanosecond of second 0, the first of second 1, and second 2 *)
RiskTimes == {NANOS_PER_SEC - 1, NANOS_PER_SEC, 2 * NANOS_PER_SEC}

RiskTops == {<<None, None>>, <<Some(<<1, 1>>), Some(<<MaxPrice, 1>>)>>}

RiskContexts ==
    {ContextSnapshot_new(ts, BookSymbol, top[1], top[2], pos, 0) :
        ts \in RiskTimes, top \in RiskTops, pos \in -1..1}

RiskIntents ==
    {PlaceLimit(BookSymbol, "Bid", MaxPrice, 2), PlaceLimit(BookSymbol, "Ask", 1, 1),
     Cancel(1)}

RiskAlonePipelines ==
    {<<RateLimitPolicy(m)>> : m \in 0..2}
    \cup {<<MaxPositionPolicy(l)>> : l \in {0, 1, -2}}
    \cup {<<MaxPositionPolicy(1), RateLimitPolicy(1)>>,
          <<RateLimitPolicy(1), MaxPositionPolicy(1)>>,
          <<PriceBandPolicy(0), RateLimitPolicy(2)>>,
          <<RepricePolicy(2), PriceBandPolicy(0)>>,
          <<RepricePolicy(1), PriceBandPolicy(0), RateLimitPolicy(1)>>}

(* risk.evaluate(&ctx, &intent) *)
RiskEvaluate(c, intent) ==
    /\ Len(history) < MaxCalls
    /\ LET r == RiskEngine_evaluate(risk, c, intent) IN
         /\ risk' = r.policies
         /\ history' = Append(history, [ts_ns |-> c.ts_ns, intent |-> intent,
                                        action |-> r.action])
    /\ ctx' = Some(c)
    /\ UNCHANGED <<omsVars, pfVars, venueVars, strategy, debug_assertions, replay, symbols, latency,
                   pc, running, queue, processed_steps, engOp>>

InitRisk ==
    \E policies \in RiskAlonePipelines :
        InitWith(<<0, 0>>, policies, AnyStrategy, FALSE)

NextRisk == \E c \in RiskContexts, intent \in RiskIntents : RiskEvaluate(c, intent)

SpecRisk == InitRisk /\ [][NextRisk]_vars

(* floor(ts_ns / 1e9) of evaluation `i` *)
C22_Bucket(i) == history[i].ts_ns \div NANOS_PER_SEC

(* The first of the consecutive evaluations up to `i` that share i's bucket *)
C22_RunStart(i) ==
    CHOOSE j \in 1..i :
        /\ \A k \in j..i : C22_Bucket(k) = C22_Bucket(i)
        /\ j > 1 => C22_Bucket(j - 1) # C22_Bucket(i)

(* The evaluations allowed before `i` among those *)
C22_AllowedBefore(i) ==
    Cardinality({k \in C22_RunStart(i)..(i - 1) : history[k].action = "Allow"})

(* C22: when the pipeline is one RateLimitPolicy(max_per_sec), an order
   intent is allowed exactly when fewer than max_per_sec intents were
   allowed before it among the consecutive evaluations that share its bucket
   floor(ts_ns / 1e9).  So at most max_per_sec are allowed in such a run, a
   rejected intent consumes no quota, the count restarts at zero when the
   bucket changes, and max_per_sec = 0 rejects every order intent.  The
   policy's count is the number of intents it allowed in the current run,
   the rejected ones left out. *)
C22_RateLimit ==
    (Len(risk) = 1 /\ risk[1].kind = "RateLimit") =>
        \A i \in 1..Len(history) :
            /\ history[i].action = "Allow"
                  <=> C22_AllowedBefore(i) < risk[1].max_per_sec
            /\ C22_AllowedBefore(i) <= risk[1].max_per_sec
            /\ (i = Len(history) /\ risk[1].max_per_sec > 0) =>
                  /\ risk[1].window_bucket = C22_Bucket(i)
                  /\ risk[1].count = C22_AllowedBefore(i)
                                        + (IF history[i].action = "Allow" THEN 1 ELSE 0)

(* RateLimitPolicy(1) allowed an intent, rejected the next one in the same
   second, and allowed a third one in another second *)
C22_Witness ==
    /\ Len(risk) = 1
    /\ risk[1].kind = "RateLimit"
    /\ risk[1].max_per_sec = 1
    /\ Len(history) = 3
    /\ C22_Bucket(1) = C22_Bucket(2)
    /\ C22_Bucket(3) # C22_Bucket(2)
    /\ history[1].action = "Allow"
    /\ history[2].action = "Reject"
    /\ history[3].action = "Allow"

(* C23: a MaxPositionPolicy with a non-zero limit rejects a PlaceLimit
   exactly when |position + qty| for a bid, |position - qty| for an ask,
   exceeds |limit|, so an order that reduces a position within the limit, a
   position at the limit included, is allowed; with limit 0 it rejects every
   PlaceLimit. *)
C23_MaxPosition ==
    \A i \in 1..Len(risk) :
        risk[i].kind = "MaxPosition" =>
            \A pos \in (-MaxPos - 1)..(MaxPos + 1), sd \in Sides, q \in 1..(MaxQty + 1) :
                LET c == ContextSnapshot_new(1, BookSymbol, None, None, pos, 0)
                    intent == PlaceLimit(BookSymbol, sd, 1, q)
                    rejected ==
                        MaxPositionPolicy_evaluate(risk[i], c, intent).action = "Reject"
                    limit == risk[i].limit_lots
                    projected == IF sd = "Bid" THEN pos + q ELSE pos - q
                    reducing == \/ pos > 0 /\ sd = "Ask" /\ q <= pos
                                \/ pos < 0 /\ sd = "Bid" /\ q <= -pos
                IN  /\ limit # 0 => (rejected <=> Abs(projected) > Abs(limit))
                    /\ (limit # 0 /\ Abs(pos) <= Abs(limit) /\ reducing) => ~rejected
                    /\ limit = 0 => rejected

(* MaxPositionPolicy(1) allowed an ask of 1 lot from a long position of 1,
   which is at the limit *)
C23_Witness ==
    /\ risk = <<MaxPositionPolicy(1)>>
    /\ history # <<>>
    /\ history[Len(history)].action = "Allow"
    /\ history[Len(history)].intent.kind = "PlaceLimit"
    /\ history[Len(history)].intent.side = "Ask"
    /\ history[Len(history)].intent.qty = 1
    /\ IsSome(ctx)
    /\ Unwrap(ctx).position_lots = 1

C33_NonPlace ==
    {Cancel(c) : c \in Coids}
    \cup {Replace(c, p, q) : c \in Coids, p \in Prices, q \in Qtys}

C33_Contexts ==
    {ContextSnapshot_new(1, BookSymbol, top[1], top[2], pos, 0) :
        top \in RiskTops, pos \in (-MaxPos - 1)..(MaxPos + 1)}

(* C33 as stated: a MaxPositionPolicy answers Allow, with the intent as it
   was given, to every Cancel and every Replace, whatever the position and
   whatever the limit *)
C33_NonPlacePassAnyLimit ==
    \A i \in 1..Len(risk) :
        risk[i].kind = "MaxPosition" =>
            \A c \in C33_Contexts, intent \in C33_NonPlace :
                MaxPositionPolicy_evaluate(risk[i], c, intent) = Allow(intent)

(* C33 amended: a MaxPositionPolicy whose limit is not 0 answers Allow, with
   the intent as it was given, to every Cancel and every Replace, whatever
   the position; one whose limit is 0 rejects them as it rejects everything *)
C33_NonPlacePass ==
    \A i \in 1..Len(risk) :
        risk[i].kind = "MaxPosition" =>
            \A c \in C33_Contexts, intent \in C33_NonPlace :
                LET action == MaxPositionPolicy_evaluate(risk[i], c, intent) IN
                /\ risk[i].limit_lots # 0 => action = Allow(intent)
                /\ risk[i].limit_lots = 0 => action.action = "Reject"

(* MaxPositionPolicy(1) allowed a Cancel while the position was at the
   limit *)
C33_Witness ==
    /\ risk = <<MaxPositionPolicy(1)>>
    /\ history # <<>>
    /\ history[Len(history)].intent.kind = "Cancel"
    /\ history[Len(history)].action = "Allow"
    /\ IsSome(ctx)
    /\ Unwrap(ctx).position_lots = -1

(* What policy `i` of the pipeline answers when it is given `seen` *)
C29_Answer(i, c, seen) == RiskPolicy_evaluate(risk[i], c, seen)

(* The intent the policies before `i` hand on, each given what the one
   before it returned *)
RECURSIVE C29_Seen(_, _, _)
C29_Seen(i, c, intent) ==
    IF i = 1 THEN intent
    ELSE LET before == C29_Seen(i - 1, c, intent)
             a == C29_Answer(i - 1, c, before).action
         IN  IF a.action = "Reject" THEN before ELSE a.intent

C29_Rejecting(c, intent) ==
    {i \in 1..Len(risk) :
        C29_Answer(i, c, C29_Seen(i, c, intent)).action.action = "Reject"}

C29_Min(S) == CHOOSE x \in S : \A y \in S : x <= y

(* C29: RiskEngine.evaluate folds the policies in insertion order.  Each
   policy is given the intent the previous one returned; the answer is the
   Reject of the first policy that rejects, and no later policy is evaluated
   (a later RateLimitPolicy keeps its window and count); when no policy
   rejects the answer is Allow of the last intent returned, never Transform. *)
C29_SequentialFold ==
    \A c \in RiskContexts, intent \in RiskIntents \cup {Replace(1, 1, 1)} :
        LET r == RiskEngine_evaluate(risk, c, intent)
            rejecting == C29_Rejecting(c, intent)
            done(j) == C29_Answer(j, c, C29_Seen(j, c, intent))
        IN  /\ r.action \in {"Allow", "Reject"}
            /\ Len(r.policies) = Len(risk)
            /\ IF rejecting = {}
               THEN /\ r.action = "Allow"
                    /\ r.intent = C29_Seen(Len(risk) + 1, c, intent)
                    /\ \A j \in 1..Len(risk) : r.policies[j] = done(j).policy
               ELSE LET first == C29_Min(rejecting) IN
                    /\ r.action = "Reject"
                    /\ r.reason = done(first).action.reason
                    /\ \A j \in 1..first : r.policies[j] = done(j).policy
                    /\ \A j \in (first + 1)..Len(risk) : r.policies[j] = risk[j]

(* MaxPositionPolicy(1) rejected every intent evaluated so far, and the
   RateLimitPolicy(1) behind it has not opened a window *)
C29_Witness ==
    /\ Len(risk) = 2
    /\ risk[1].kind = "MaxPosition"
    /\ risk[2] = RateLimitPolicy(1)
    /\ history # <<>>
    /\ \A i \in 1..Len(history) : history[i].action = "Reject"

---------------------------------------------------------------------------
(* A TwapStrategy on its own: market events and timer ticks under any
   context, and execution reports of its orders with any status and any
   cumulative quantity.  Here `history` holds the intents the strategy has
   emitted to which no Filled, Canceled, Rejected or Expired report has come
   back yet. *)

(* <<target_qty_lots, horizon_secs, slice_qty_lots>> *)
TwapConfigs == {<<3, 0, 1>>, <<2, 1, 1>>, <<-3, 1, -2>>, <<-2, 0, 0>>, <<0, 0, 1>>}

TwapTimes == {1, 2, NANOS_PER_SEC, NANOS_PER_SEC + 1}

StrategyTops ==
    {<<None, None>>, <<Some(<<1, 1>>), None>>, <<Some(<<1, 1>>), Some(<<MaxPrice, 1>>)>>}

TwapContexts ==
    {ContextSnapshot_new(ts, BookSymbol, top[1], top[2], 0, 0) :
        ts \in TwapTimes, top \in StrategyTops}

(* The reports of the strategy's orders: they carry the side it trades *)
TwapReports ==
    {ExecutionReport(1, st, f, 1, 0, 1, BookSymbol,
                     IF strategy.target_qty_lots < 0 THEN "Ask" ELSE "Bid") :
        st \in OrderStatuses, f \in 0..(MaxQty + 1)}

TerminalReport(report) ==
    report.status \in {"Filled", "Canceled", "Rejected", "Expired"}

(* <TwapStrategy as Strategy>::on_market_event and on_timer *)
TwapOnEvent(c) ==
    /\ strategy.kind = "twap"
    /\ LET r == TwapStrategy_maybe_place(strategy, c) IN
         /\ strategy' = r.strategy
         /\ history' = history \o r.intents
    /\ ctx' = Some(c)
    /\ engOp' = "on_timer"
    /\ UNCHANGED <<omsVars, pfVars, venueVars, risk, debug_assertions, replay, symbols, latency,
                   pc, running, queue, processed_steps>>

(* <TwapStrategy as Strategy>::on_execution_report *)
TwapOnExecutionReport(report) ==
    /\ strategy.kind = "twap"
    /\ strategy' = TwapStrategy_on_report(strategy, report)
    /\ history' = IF TerminalReport(report) /\ history # <<>>
                  THEN Tail(history) ELSE history
    /\ engOp' = "on_execution_report"
    /\ UNCHANGED <<omsVars, pfVars, venueVars, risk, debug_assertions, replay, symbols, latency,
                   pc, running, queue, processed_steps, ctx>>

InitTwap ==
    \E cfg \in TwapConfigs :
        InitWith(<<0, 0>>, <<>>, TwapStrategy_new(cfg[1], cfg[2], cfg[3]), FALSE)

NextTwap ==
    \/ \E c \in TwapContexts : TwapOnEvent(c)
    \/ \E report \in TwapReports : TwapOnExecutionReport(report)

SpecTwap == InitTwap /\ [][NextTwap]_vars

(* At most one emitted order is unanswered, and while one is the strategy
   emits nothing whatever the context; nor does it once nothing remains *)
C24_OneInFlight ==
    /\ Len(history) <= 1
    /\ (history # <<>> \/ strategy.remaining_qty_lots = 0) =>
          \A c \in TwapContexts : TwapStrategy_maybe_place(strategy, c).intents = <<>>

(* What is emitted is one PlaceLimit of min(|remaining|, slice) lots on the
   side of the target's sign *)
C24_Emits ==
    history' # history /\ Len(history') > Len(history) =>
        LET placed == history'[Len(history')] IN
        /\ Len(history') = Len(history) + 1
        /\ placed.kind = "PlaceLimit"
        /\ placed.qty = Min(Abs(strategy.remaining_qty_lots), strategy.slice_qty_lots)
        /\ placed.qty >= 1
        /\ placed.side = IF strategy.target_qty_lots > 0 THEN "Bid" ELSE "Ask"

(* remaining moves toward zero and keeps its sign; the target stays *)
C24_Remaining ==
    /\ Abs(strategy'.remaining_qty_lots) <= Abs(strategy.remaining_qty_lots)
    /\ strategy'.remaining_qty_lots # 0 =>
          strategy'.remaining_qty_lots * strategy.target_qty_lots > 0
    /\ strategy'.target_qty_lots = strategy.target_qty_lots

(* C24: TwapStrategy never has more than one order in flight: after it has
   emitted a PlaceLimit it emits nothing until a Filled, Canceled, Rejected
   or Expired report arrives.  Each emitted quantity is min(|remaining|,
   slice) on the side of the target's sign; remaining moves toward zero
   without changing sign; and once the fills have used up the target
   (remaining is 0) the strategy emits no further intent. *)
C24_Twap ==
    /\ []C24_OneInFlight
    /\ [][C24_Emits /\ C24_Remaining]_vars

(* After a first slice was filled a second order is in flight *)
C24_Witness ==
    /\ strategy.kind = "twap"
    /\ Len(history) = 1
    /\ strategy.in_flight
    /\ strategy.remaining_qty_lots # 0
    /\ strategy.remaining_qty_lots # strategy.target_qty_lots
    /\ history[1].qty = Min(Abs(strategy.remaining_qty_lots), strategy.slice_qty_lots)

---------------------------------------------------------------------------
(* An MmStrategy on its own: market events and timer ticks under any
   context, and execution reports of its bid (client order id 1) and of its
   ask (client order id 2) with any status and price.  Here `history` holds
   the intents the last call returned. *)

(* <<half_spread_ticks, quote_qty_lots, skew_per_lot_ticks>> *)
MmConfigs == {<<2, 1, 1>>, <<1, 2, 0>>, <<0, 0, -1>>, <<-1, 1, 3>>}

MmTops ==
    StrategyTops \cup {<<Some(<<MaxPrice, 1>>), Some(<<MaxPrice + 2, 1>>)>>}

MmContexts ==
    {ContextSnapshot_new(1, BookSymbol, top[1], top[2], pos, 0) :
        top \in MmTops, pos \in -MaxPos..MaxPos}

MmReports ==
    {ExecutionReport(IF sd = "Bid" THEN 1 ELSE 2, st, 0, p, 0, 1, BookSymbol, sd) :
        sd \in Sides, st \in OrderStatuses, p \in Prices}

(* <MmStrategy as Strategy>::on_market_event and on_timer *)
MmOnEvent(c) ==
    /\ strategy.kind = "mm"
    /\ LET r == MmStrategy_quote(strategy, c) IN
         /\ strategy' = r.strategy
         /\ history' = r.intents
    /\ ctx' = Some(c)
    /\ engOp' = "on_timer"
    /\ UNCHANGED <<omsVars, pfVars, venueVars, risk, debug_assertions, replay, symbols, latency,
                   pc, running, queue, processed_steps>>

(* <MmStrategy as Strategy>::on_execution_report *)
MmOnExecutionReport(report) ==
    /\ strategy.kind = "mm"
    /\ strategy' = MmStrategy_on_report(strategy, report)
    /\ history' = <<>>
    /\ engOp' = "on_execution_report"
    /\ UNCHANGED <<omsVars, pfVars, venueVars, risk, debug_assertions, replay, symbols, latency,
                   pc, running, queue, processed_steps, ctx>>

InitMm ==
    \E cfg \in MmConfigs :
        InitWith(<<0, 0>>, <<>>, MmStrategy_new(cfg[1], cfg[2], cfg[3]), FALSE)

NextMm ==
    \/ \E c \in MmContexts : MmOnEvent(c)
    \/ \E report \in MmReports : MmOnExecutionReport(report)

SpecMm == InitMm /\ [][NextMm]_vars

(* mid - half_spread - position * skew and mid + half_spread - position *
   skew for the call that has just returned *)
C25_RawBid ==
    Unwrap(Unwrap(ctx).mid_price) - strategy.half_spread_ticks
        - Unwrap(ctx).position_lots * strategy.skew_per_lot_ticks

C25_RawAsk ==
    Unwrap(Unwrap(ctx).mid_price) + strategy.half_spread_ticks
        - Unwrap(ctx).position_lots * strategy.skew_per_lot_ticks

(* The prices of the bid-side and of the ask-side intents just returned.  A
   PlaceLimit names its side; a Replace of the bid carries client order id 1,
   a Replace of the ask 2. *)
C25_Quoted(side) ==
    {IF history[i].kind = "PlaceLimit" THEN history[i].price ELSE history[i].new_price :
        i \in {j \in DOMAIN history :
                 \/ history[j].kind = "PlaceLimit" /\ history[j].side = side
                 \/ history[j].kind = "Replace"
                    /\ history[j].client_order_id = (IF side = "Bid" THEN 1 ELSE 2)}}

(* C25: when a call of on_market_event or on_timer with a mid price has
   returned, a bid it emitted is priced mid - half_spread - position*skew
   and an ask mid + half_spread - position*skew, the bid raised to 1 when
   the formula gives less, the ask raised to 1 and then above the bid; so
   every emitted bid is >= 1, every emitted ask is above the bid price of
   the same call, and in an emitted pair ask > bid >= 1. *)
C25_Quotes ==
    (strategy.kind = "mm" /\ engOp = "on_timer" /\ IsSome(Unwrap(ctx).mid_price)) =>
        LET bid == IF C25_RawBid < 1 THEN 1 ELSE C25_RawBid IN
        /\ \A pb \in C25_Quoted("Bid") : pb = bid
        /\ \A pa \in C25_Quoted("Ask") :
              /\ pa > bid
              /\ C25_RawAsk > bid => pa = C25_RawAsk
              /\ C25_RawAsk <= bid => pa = bid + 1
        /\ \A pb \in C25_Quoted("Bid"), pa \in C25_Quoted("Ask") : pa > pb /\ pb >= 1

(* A pair was just quoted with a long position and the skew pushing both
   raw prices under 1: the bid is clamped to 1 and the ask put above it *)
C25_Witness ==
    /\ strategy.kind = "mm"
    /\ engOp = "on_timer"
    /\ IsSome(Unwrap(ctx).mid_price)
    /\ C25_RawAsk < 1
    /\ C25_Quoted("Bid") = {1}
    /\ C25_Quoted("Ask") = {2}

---------------------------------------------------------------------------
(* The codecs on their own: texts are interned into the table, an event is
   encoded against the table, and what was encoded is decoded against the
   table as it is by then. *)

MaxSymbols == 2

CodecTexts ==
    {<<"S">>, <<" ", "S", " ">>, <<"a", "\"", "b">>, <<"X", " ", "Y">>, <<" ">>}

CodecUpdates ==
    {<<>>, <<LevelUpdate("Bid", 100, 3)>>,
     <<LevelUpdate("Ask", 7, 0), LevelUpdate("Bid", 100, 3)>>}

CodecLevels == {<<>>, <<<<100, 2>>>>, <<<<256, 10>>, <<99, 1>>>>}

(* Valid events: prices and quantities are not negative.  SymbolId
   MaxSymbols is never in the table. *)
CodecEvents ==
    {L2Delta(ts_ns, id, updates) :
        ts_ns \in {0, 42}, id \in 0..MaxSymbols, updates \in CodecUpdates}
    \cup {L2Snapshot(ts_ns, id, bids, asks) :
        ts_ns \in {0, 42}, id \in 0..MaxSymbols, bids \in CodecLevels,
        asks \in CodecLevels}

(* What a reader of lines hands to the decoder: the line, with or without
   its line ending *)
LineEndings == {<<>>, <<JsonP("\n")>>, <<JsonP("\r"), JsonP("\n")>>}

CodecIntern(text) ==
    LET r == SymbolTable_try_intern(symbols, text) IN
    /\ Len(r.table.by_id) <= MaxSymbols
    /\ symbols' = r.table
    /\ engOp' = "try_intern"
    /\ UNCHANGED <<omsVars, pfVars, venueVars, risk, strategy, debug_assertions, replay, history,
                   latency, pc, running, queue, processed_steps, ctx>>

CodecEncode(format, event) ==
    /\ history' = <<[format |-> format, event |-> event, symbols |-> symbols,
                     encoded |-> IF format = "json"
                                 THEN encode_event_json_line(event, symbols)
                                 ELSE encode_event_bin_record(event, symbols),
                     decoded |-> None]>>
    /\ engOp' = "encode"
    /\ UNCHANGED <<omsVars, pfVars, venueVars, risk, strategy, debug_assertions, replay, symbols,
                   latency, pc, running, queue, processed_steps, ctx>>

CodecDecode(ending) ==
    /\ history # <<>>
    /\ history[1].encoded.ok
    /\ history[1].decoded = None
    /\ history[1].format = "bin" => ending = <<>>
    /\ LET r == IF history[1].format = "json"
                THEN decode_event_json_line(history[1].encoded.value \o ending, symbols)
                ELSE decode_event_bin_record(history[1].encoded.value, symbols)
       IN  /\ symbols' = r.table
           /\ history' = <<[history[1] EXCEPT !.decoded = Some(r.result)]>>
    /\ engOp' = "decode"
    /\ UNCHANGED <<omsVars, pfVars, venueVars, risk, strategy, debug_assertions, replay,
                   latency, pc, running, queue, processed_steps, ctx>>

InitCodec == InitParts

NextCodec ==
    \/ \E text \in CodecTexts : CodecIntern(text)
    \/ \E format \in {"json", "bin"}, event \in CodecEvents : CodecEncode(format, event)
    \/ \E ending \in LineEndings : CodecDecode(ending)

SpecCodec == InitCodec /\ [][NextCodec]_vars

(* C26: an event whose symbol is in the table is encoded, by the text line
   codec and by the binary record codec alike (and an event whose symbol is
   not in the table is refused), and decoding what was encoded returns Ok
   with an event equal to the one encoded *)
C26_RoundTrip ==
    \A i \in DOMAIN history :
        LET h == history[i] IN
        /\ h.encoded.ok <=> IsSome(SymbolTable_try_resolve(h.symbols, h.event.symbol))
        /\ IsSome(h.decoded) =>
             /\ Unwrap(h.decoded).ok
             /\ Unwrap(h.decoded).value = h.event

(* A snapshot with two levels a side under a symbol whose text holds a
   quote has come back from the text line codec, and a delta with two
   updates from the binary record codec *)
C26_Witness ==
    /\ history # <<>>
    /\ IsSome(history[1].decoded)
    /\ Unwrap(history[1].decoded).ok
    /\ Unwrap(history[1].decoded).value = history[1].event
    /\ symbols.by_id[history[1].event.symbol + 1] = <<"a", "\"", "b">>
    /\ \/ /\ history[1].format = "json"
          /\ history[1].event.type = "L2Snapshot"
          /\ Len(history[1].event.bids) = 2
          /\ Len(history[1].event.asks) = 2
       \/ /\ history[1].format = "bin"
          /\ history[1].event.type = "L2Delta"
          /\ Len(history[1].event.updates) = 2

---------------------------------------------------------------------------
(* The engine: market events and timer ticks from outside, and between the
   entry and the return of one of them the steps of the pipeline. *)

EventTimes == {9}

EngineEvents ==
    {L2Delta(t, BookSymbol, <<LevelUpdate(sd, 2, q)>>) :
        t \in EventTimes, sd \in Sides, q \in LevelQtys}
    \cup {L2Delta(t, OtherSymbol, <<LevelUpdate("Ask", 1, 1)>>) : t \in EventTimes}

RiskPipelines == {<<>>, <<MaxPositionPolicy(1)>>, <<RepricePolicy(1)>>}

(* Engine::on_market_event up to the call of process_reports.  When the
   book refuses the event the call returns false at once.  A run is cut
   off after max_events applied events and max_venue_ts venue reports. *)
EngineOnMarketEventUpTo(event, keys, max_events, max_venue_ts) ==
    LET r == apply_and_sweep(book, venue, event, keys) IN
    /\ pc = "idle"
    /\ IF ~r.applied
       THEN /\ engOp' = "return_false"
            /\ UNCHANGED <<book, venue, out, venueOp, risk, strategy,
                           debug_assertions, symbols, history, latency, pc, running, queue,
                           processed_steps, ctx, omsVars, pfVars>>
       ELSE /\ latency < max_events
            /\ r.venue.next_ts_ns <= max_venue_ts + 1
            /\ book' = r.book
            /\ venue' = r.venue
            /\ out' = r.reports
            /\ venueOp' = "on_book_update"
            /\ queue' = <<>>
            /\ processed_steps' = 0
            /\ running' = [kind |-> "market", ts_ns |-> event.ts_ns,
                         symbol |-> event.symbol]
            /\ pc' = "market"
            /\ engOp' = "sweep"
            /\ UNCHANGED <<risk, strategy, debug_assertions, symbols, history, latency, ctx,
                           omsVars, pfVars>>

EngineOnMarketEvent(event, keys) ==
    EngineOnMarketEventUpTo(event, keys, MaxEvents, MaxVenueTs)

(* One iteration of the loop of Engine::process_reports *)
EngineProcessReport ==
    /\ pc \in {"market", "drain"}
    /\ out # <<>>
    /\ LET report == Head(out)
           oms1 == Oms_on_execution_report(oms, report)
           portfolio1 == Portfolio_on_execution_report(portfolio, report)
           report_ctx == report_context(book, portfolio, oms, report)
       IN  /\ oms' = oms1
           /\ omsBranch' = Oms_report_branch(oms, report)
           /\ portfolio' = portfolio1
           /\ pfBranch' = Portfolio_report_branch(portfolio, report)
           /\ ctx' = Some(report_ctx)
           /\ \E s \in Strategy_on_execution_report(strategy, report_ctx, report,
                                                    Intents(queue), oms1, venue) :
                /\ strategy' = s.strategy
                /\ queue' = queue_extend(queue, s.intents,
                                         processed_steps + Len(queue))
    /\ out' = Tail(out)
    /\ request' = None
    /\ engOp' = "report"
    /\ UNCHANGED <<book, venue, venueOp, risk, debug_assertions, replay, symbols, history,
                   latency, pc, running, processed_steps>>

(* on_market_event calling the strategy straight after the sweep, before
   process_reports *)
EngineStrategyOnMarketEvent_before_reports ==
    /\ pc = "market"
    /\ LET c == build_context(book, portfolio, oms, running.ts_ns, running.symbol) IN
         /\ ctx' = Some(c)
         /\ \E s \in Strategy_on_event(strategy, c, Intents(queue), oms, venue) :
              /\ strategy' = s.strategy
              /\ queue' = queue_extend(queue, s.intents, Len(queue))
    /\ pc' = "drain"
    /\ engOp' = "on_market_event"
    /\ UNCHANGED <<omsVars, pfVars, venueVars, risk, debug_assertions, replay, symbols, history,
                   latency, running, processed_steps>>

(* Engine::on_market_event after process_reports: the strategy sees the
   event, and handle_intent_queue starts *)
EngineStrategyOnMarketEvent ==
    /\ pc = "market"
    /\ out = <<>>
    /\ LET c == build_context(book, portfolio, oms, running.ts_ns, running.symbol) IN
         /\ ctx' = Some(c)
         /\ \E s \in Strategy_on_event(strategy, c, Intents(queue), oms, venue) :
              /\ strategy' = s.strategy
              /\ queue' = queue_extend(queue, s.intents, Len(queue))
    /\ pc' = "drain"
    /\ engOp' = "on_market_event"
    /\ UNCHANGED <<omsVars, pfVars, venueVars, risk, debug_assertions, replay, symbols, history, latency,
                   running, processed_steps>>

(* on_timer running the venue's passive sweep before the strategy *)
EngineOnTimer_sweeps(ts_ns, symbol) ==
    /\ pc = "idle"
    /\ \E keys \in KeyOrders(venue.live_orders) :
         LET r == SimVenue_on_book_update(venue, book, keys, <<>>) IN
         /\ venue' = r.venue
         /\ out' = r.out
    /\ venueOp' = "on_book_update"
    /\ LET c == build_context(book, portfolio, oms, ts_ns, symbol) IN
         /\ ctx' = Some(c)
         /\ \E s \in Strategy_on_event(strategy, c, <<>>, oms, venue) :
              /\ strategy' = s.strategy
              /\ queue' = queue_extend(<<>>, s.intents, 0)
    /\ processed_steps' = 0
    /\ running' = [kind |-> "timer", ts_ns |-> ts_ns, symbol |-> symbol]
    /\ pc' = "drain"
    /\ engOp' = "on_timer"
    /\ UNCHANGED <<omsVars, pfVars, book, risk, debug_assertions, symbols, history, latency>>

(* Engine::on_timer up to the call of handle_intent_queue *)
EngineOnTimer(ts_ns, symbol) ==
    /\ pc = "idle"
    /\ LET c == build_context(book, portfolio, oms, ts_ns, symbol) IN
         /\ ctx' = Some(c)
         /\ \E s \in Strategy_on_event(strategy, c, <<>>, oms, venue) :
              /\ strategy' = s.strategy
              /\ queue' = queue_extend(<<>>, s.intents, 0)
    /\ out' = <<>>
    /\ processed_steps' = 0
    /\ running' = [kind |-> "timer", ts_ns |-> ts_ns, symbol |-> symbol]
    /\ pc' = "drain"
    /\ engOp' = "on_timer"
    /\ UNCHANGED <<omsVars, pfVars, book, venue, venueOp, risk,
                   debug_assertions, symbols, history, latency>>

(* One iteration of the loop of Engine::handle_intent_queue, up to the call
   of process_reports *)
EngineHandleIntent ==
    /\ pc = "drain"
    /\ out = <<>>
    /\ queue # <<>>
    /\ LET popped == queue_pop_front(queue)
           intent == popped.intent.intent
       IN
       /\ queue' = popped.rest
       /\ IF cap_reached(processed_steps)
          THEN /\ pc' = IF debug_assertions THEN "panic" ELSE "break"
               /\ engOp' = "cap"
               /\ UNCHANGED <<omsVars, pfVars, venueVars, processed_steps, ctx, risk>>
          ELSE
            LET intent_ctx == build_context(book, portfolio, oms, running.ts_ns,
                                            running.symbol)
                decision == RiskEngine_evaluate(risk, intent_ctx, intent)
            IN
            /\ processed_steps' = processed_steps + 1
            /\ ctx' = Some(intent_ctx)
            /\ pc' = pc
            /\ risk' = decision.policies
            /\ IF decision.action = "Reject"
               THEN /\ engOp' = "risk_reject"
                    /\ UNCHANGED <<omsVars, pfVars, venueVars>>
               ELSE
                 LET allowed == allowed_intent(decision, intent)
                     a == Oms_apply_intent(oms, allowed, running.ts_ns)
                 IN
                 /\ oms' = a.oms
                 /\ request' = a.request
                 /\ omsBranch' = allowed.kind
                 /\ IF ~IsSome(a.request)
                    THEN /\ engOp' = "oms_none"
                         /\ UNCHANGED <<pfVars, venueVars>>
                    ELSE LET r == SimVenue_submit(venue, book, Unwrap(a.request), <<>>)
                         IN  /\ venue' = r.venue
                             /\ out' = r.out
                             /\ venueOp' = "submit"
                             /\ engOp' = "submit"
                             /\ UNCHANGED <<pfVars, book>>
    /\ UNCHANGED <<strategy, debug_assertions, replay, symbols, history, latency, running>>

(* The end of handle_intent_queue and the return of the entry; a market
   event records one latency sample on its way out *)
EngineReturn ==
    /\ \/ pc = "drain" /\ out = <<>> /\ queue = <<>>
       \/ pc = "break"
    /\ latency' = IF running.kind = "market" THEN latency + 1 ELSE latency
    /\ engOp' = IF running.kind = "market" THEN "return_true" ELSE "return"
    /\ pc' = "idle"
    /\ running' = NoEntry
    /\ processed_steps' = 0
    /\ ctx' = None
    /\ UNCHANGED <<omsVars, pfVars, venueVars, risk, strategy, debug_assertions, replay, symbols, history,
                   queue>>

(* An engine built as the simulate command builds it, around a strategy
   about which nothing is known and either risk pipeline, or around the
   churning strategy in either build *)
Init ==
    \/ \E policies \in RiskPipelines :
          InitWith(<<0, 0>>, policies, AnyStrategy, FALSE)
    \/ \E debug \in BOOLEAN : InitWith(<<0, 0>>, <<>>, ChurnStrategy, debug)

Next ==
    \/ \E event \in EngineEvents, keys \in KeyOrders(venue.live_orders) :
          EngineOnMarketEvent(event, keys) /\ UNCHANGED replay
    \/ \E t \in EventTimes : EngineOnTimer(t, BookSymbol) /\ UNCHANGED replay
    \/ EngineProcessReport
    \/ EngineStrategyOnMarketEvent
    \/ EngineHandleIntent
    \/ EngineReturn

Spec == Init /\ [][Next]_vars

(* The steps of an entry that is running: the call is synchronous, so a
   step that can be taken is taken *)
EngineStep ==
    \/ EngineProcessReport
    \/ EngineStrategyOnMarketEvent
    \/ EngineHandleIntent
    \/ EngineReturn

InitChurn == \E debug \in BOOLEAN : InitWith(<<0, 0>>, <<>>, ChurnStrategy, debug)

(* The engine around the churning strategy only *)
SpecChurn == InitChurn /\ [][Next]_vars /\ WF_vars(EngineStep)

---------------------------------------------------------------------------
(* The replay loop of the simulate command: it reads the events of the
   log one after another, calls on_timer for the ticks that have come due
   and then on_market_event, each call running to its return before the
   loop goes on. *)

MAX_TIMER_TICKS_PER_EVENT == 1024

event_ts_ns(event) == event.ts_ns

saturating_sub(a, b) == IF a < b THEN 0 ELSE a - b

saturating_add(a, b) == IF a > U64_MAX - b THEN U64_MAX ELSE a + b

(* the condition of the inner while loop with >, for comparison *)
tick_due_after(event_ts, last_tick, timer_interval_ns) ==
    saturating_sub(event_ts, last_tick) > timer_interval_ns

(* the condition of the inner while loop *)
tick_due(event_ts, last_tick, timer_interval_ns) ==
    saturating_sub(event_ts, last_tick) >= timer_interval_ns

ReplayQuiet ==
    UNCHANGED <<omsVars, pfVars, venueVars, risk, strategy, debug_assertions,
                symbols, history, latency, pc, running, queue, processed_steps,
                ctx, engOp>>

(* run_simulate up to its loop *)
ReplayStart(tape, timer_interval_ns, limit) ==
    /\ replay.pc = "off"
    /\ replay' = [NoReplay EXCEPT !.pc = "read",
                                  !.tape = tape,
                                  !.timer_interval_ns = Max({timer_interval_ns, 1}),
                                  !.limit = limit]
    /\ ReplayQuiet

(* reader.next_event() and the branch on last_tick_ts_ns: the first event
   only sets the tick clock *)
ReplayNextEvent ==
    /\ replay.pc = "read"
    /\ pc = "idle"
    /\ IF replay.tape = <<>>
       THEN replay' = [replay EXCEPT !.pc = "done"]
       ELSE LET event == Head(replay.tape) IN
            IF IsSome(replay.last_tick_ts_ns)
            THEN replay' = [replay EXCEPT !.pc = "ticks",
                                          !.tape = Tail(replay.tape),
                                          !.event = Some(event),
                                          !.last_tick = Unwrap(replay.last_tick_ts_ns),
                                          !.ticks_processed = 0]
            ELSE replay' = [replay EXCEPT !.pc = "deliver",
                                          !.tape = Tail(replay.tape),
                                          !.event = Some(event),
                                          !.last_tick_ts_ns = Some(event_ts_ns(event))]
    /\ ReplayQuiet

(* One turn of the inner while loop: a tick, the cap, or the end of the
   loop and the assignment after it *)
ReplayTick ==
    /\ replay.pc = "ticks"
    /\ pc = "idle"
    /\ LET event_ts == event_ts_ns(Unwrap(replay.event)) IN
       IF tick_due(event_ts, replay.last_tick, replay.timer_interval_ns)
       THEN IF replay.ticks_processed >= MAX_TIMER_TICKS_PER_EVENT
            THEN /\ replay' = IF debug_assertions
                              THEN [replay EXCEPT !.pc = "panic"]
                              ELSE [replay EXCEPT !.pc = "deliver",
                                                  !.last_tick_ts_ns = Some(replay.last_tick)]
                 /\ ReplayQuiet
            ELSE LET last_tick == saturating_add(replay.last_tick,
                                                 replay.timer_interval_ns) IN
                 /\ EngineOnTimer(last_tick, BookSymbol)
                 /\ replay' = [replay EXCEPT
                                 !.last_tick = last_tick,
                                 !.ticks_processed = @ + 1,
                                 !.calls = Append(@, [kind |-> "on_timer",
                                                      ts_ns |-> last_tick])]
       ELSE /\ replay' = [replay EXCEPT !.pc = "deliver",
                                        !.last_tick_ts_ns = Some(replay.last_tick)]
            /\ ReplayQuiet

(* events_read += 1, engine.on_market_event(&event) and the check of the
   limit *)
ReplayDeliver(keys) ==
    /\ replay.pc = "deliver"
    /\ pc = "idle"
    /\ LET event == Unwrap(replay.event)
           events_read == replay.events_read + 1
       IN
       /\ EngineOnMarketEvent(event, keys)
       /\ replay' = [replay EXCEPT
                       !.events_read = events_read,
                       !.calls = Append(@, [kind |-> "on_market_event",
                                            ts_ns |-> event_ts_ns(event)]),
                       !.pc = IF IsSome(replay.limit) /\ events_read >= Unwrap(replay.limit)
                              THEN "done" ELSE "read"]

ReplayEvent(ts_ns, symbol) ==
    L2Delta(ts_ns, symbol, <<LevelUpdate("Bid", 1, 1), LevelUpdate("Ask", 3, 1)>>)

(* Logs: one whose timestamps stand still and go back, and one with a gap
   of more ticks than one event may bring *)
ReplayTapes ==
    {<<ReplayEvent(5, BookSymbol), ReplayEvent(5, OtherSymbol),
       ReplayEvent(7, OtherSymbol), ReplayEvent(6, OtherSymbol),
       ReplayEvent(12, BookSymbol)>>,
     <<ReplayEvent(0, BookSymbol), ReplayEvent(1030, OtherSymbol),
       ReplayEvent(1031, OtherSymbol)>>}

ReplayIntervals == {0, 2, 3}

ReplayLimits == {None, Some(2)}

ReplayStrategies == {NoopStrategy, MmStrategy_new(1, 1, 0)}

InitReplay ==
    \E strat \in ReplayStrategies, debug \in BOOLEAN :
        InitWith(<<0, 0>>, <<>>, strat, debug)

NextReplay ==
    \/ \E tape \in ReplayTapes, interval \in ReplayIntervals, limit \in ReplayLimits :
          ReplayStart(tape, interval, limit)
    \/ ReplayNextEvent
    \/ ReplayTick
    \/ \E keys \in KeyOrders(venue.live_orders) : ReplayDeliver(keys)
    \/ EngineProcessReport
    \/ EngineStrategyOnMarketEvent
    \/ EngineHandleIntent
    \/ EngineReturn

SpecReplay == InitReplay /\ [][NextReplay]_vars

C35_Timers(calls) == {j \in DOMAIN calls : calls[j].kind = "on_timer"}

(* the last MAX_TIMER_TICKS_PER_EVENT calls were all ticks *)
C35_Capped(calls) ==
    /\ Len(calls) >= MAX_TIMER_TICKS_PER_EVENT
    /\ \A j \in (Len(calls) - MAX_TIMER_TICKS_PER_EVENT + 1)..Len(calls) :
          calls[j].kind = "on_timer"

(* t is the time of the latest tick, or of the first event when there has
   been no tick yet *)
C35_IsLastTick(calls, t) ==
    IF C35_Timers(calls) = {}
    THEN t = calls[1].ts_ns
    ELSE /\ \E j \in C35_Timers(calls) : calls[j].ts_ns = t
         /\ \A j \in C35_Timers(calls) : calls[j].ts_ns <= t

(* C35: in the replay loop of the simulate command no tick comes before
   the first event; each tick is timer_interval_ns after the tick before
   it (after the first event for the first tick), is no later than the
   event that is waiting, and is later than every earlier tick; no event
   brings more than MAX_TIMER_TICKS_PER_EVENT ticks; and an event is
   handed to on_market_event only once no further tick is due for it or
   the cap has been reached *)
C35_TimerTicks ==
    [][LET calls == replay.calls
           after == replay'.calls
           call == after[Len(after)]
       IN
       after # calls =>
         /\ after = Append(calls, call)
         /\ call.kind = "on_timer" =>
              /\ calls # <<>>
              /\ calls[1].kind = "on_market_event"
              /\ C35_IsLastTick(calls, call.ts_ns - replay.timer_interval_ns)
              /\ IsSome(replay.event)
              /\ call.ts_ns <= event_ts_ns(Unwrap(replay.event))
              /\ \A j \in C35_Timers(calls) : calls[j].ts_ns < call.ts_ns
              /\ ~C35_Capped(calls)
         /\ (call.kind = "on_market_event" /\ calls # <<>>) =>
              \/ C35_Capped(calls)
              \/ \A t \in {calls[j].ts_ns : j \in C35_Timers(calls) \cup {1}} :
                    C35_IsLastTick(calls, t) =>
                        t + replay.timer_interval_ns > call.ts_ns
      ]_vars

(* An event 1030 after the first one has brought its 1024 ticks and has
   been delivered, and the next event has brought the tick that follows *)
C35_Witness ==
    /\ Len(replay.calls) = MAX_TIMER_TICKS_PER_EVENT + 3
    /\ replay.calls[1] = [kind |-> "on_market_event", ts_ns |-> 0]
    /\ replay.calls[MAX_TIMER_TICKS_PER_EVENT + 1] =
          [kind |-> "on_timer", ts_ns |-> MAX_TIMER_TICKS_PER_EVENT]
    /\ replay.calls[MAX_TIMER_TICKS_PER_EVENT + 2] =
          [kind |-> "on_market_event", ts_ns |-> 1030]
    /\ replay.calls[MAX_TIMER_TICKS_PER_EVENT + 3] =
          [kind |-> "on_timer", ts_ns |-> MAX_TIMER_TICKS_PER_EVENT + 1]

---------------------------------------------------------------------------
(* Properties of the engine *)

(* C4: replay does not depend on the order in which the venue's live-order
   hash map iterates.  The sweep is the one step of an entry that iterates a
   hash map; every other step is a function of the state and of what the
   strategy pushes.  Whenever an entry can start, for every market event the
   book, the venue (its next timestamp included) and the reports (their
   timestamps included) that come out of apply-and-sweep are the same for
   every iteration order. *)
C4_SweepIndependentOfMapOrder ==
    pc = "idle" =>
        \A event \in EngineEvents :
            \A k1, k2 \in KeyOrders(venue.live_orders) :
                apply_and_sweep(book, venue, event, k1)
                    = apply_and_sweep(book, venue, event, k2)

(* A market event that filled two resting orders in one sweep *)
C4_Witness ==
    /\ engOp = "sweep"
    /\ Len(out) = 2
    /\ out[1].ts_ns + 1 = out[2].ts_ns
    /\ out[1].client_order_id < out[2].client_order_id

C6_Return ==
    (pc # "idle" /\ pc' = "idle") =>
        (queue = <<>> \/ cap_reached(processed_steps))

(* C6: inside an entry the queue holds, from head to tail, the intents with
   consecutive enqueue numbers that follow the processed_steps intents
   already risk-evaluated, so the intent taken next is the oldest one
   waiting and a follow-up pushed on a report waits behind all of them; and
   an entry returns with nothing left waiting, unless it stopped at the
   MAX_INTENT_STEPS cap (C8). *)
C6_FifoWithinEntry ==
    /\ [](pc \in {"market", "drain"} =>
            \A i \in DOMAIN queue : queue[i].seq = processed_steps + i)
    /\ [][C6_Return]_vars

(* The third intent of an entry has been risk-evaluated.  A strategy pushes
   at most MaxQueue intents at the start of an entry, so this one was pushed
   on a report while another intent was waiting. *)
C6_Witness ==
    /\ strategy.kind = "any"
    /\ pc = "drain"
    /\ processed_steps = MaxQueue + 1
    /\ engOp \in {"submit", "oms_none", "risk_reject"}

(* C7: a report is taken from the head of the venue's reports, which wait in
   the order the venue stamped them; when strategy.on_execution_report has
   been called for it, the context it was given carries the report's
   timestamp and symbol and the position and open-order count that the OMS
   and the portfolio hold after that report, and the reports that follow are
   still waiting. *)
C7_ReportThenContext ==
    /\ \A i, j \in DOMAIN out : i < j => out[i].ts_ns < out[j].ts_ns
    /\ engOp = "report" =>
          /\ IsSome(ctx)
          /\ Unwrap(ctx).position_lots
                = Portfolio_position_lots(portfolio, Unwrap(ctx).symbol)
          /\ Unwrap(ctx).open_orders = oms.open_orders_count
          /\ \A i \in DOMAIN out : out[i].ts_ns > Unwrap(ctx).ts_ns

(* The first of two fills of one sweep has been delivered: it changed the
   position and closed an order, and the second fill is still waiting *)
C7_Witness ==
    /\ engOp = "report"
    /\ pfBranch = "fill"
    /\ omsBranch = "applied"
    /\ Unwrap(ctx).position_lots # 0
    /\ Len(out) = 1
    /\ out[1].ts_ns = Unwrap(ctx).ts_ns + 1

C8_AfterCap ==
    processed_steps = MAX_INTENT_STEPS =>
        /\ venue' = venue
        /\ oms'.next_id = oms.next_id
        /\ engOp' \notin {"submit", "oms_none", "risk_reject"}

(* C8: with a strategy that pushes a new intent on every report, an entry
   never risk-evaluates more than MAX_INTENT_STEPS intents; once that many
   are evaluated, no step of the entry calls Oms::apply_intent or the venue;
   and every entry comes to an end (in a build with debug assertions, at the
   failed assertion). *)
C8_EntryTerminates ==
    /\ [](processed_steps <= MAX_INTENT_STEPS)
    /\ [][C8_AfterCap]_vars
    /\ (pc # "idle") ~> (pc \in {"idle", "panic"})

(* The entry took the intent after the 1024th from the queue and dropped it *)
C8_Witness ==
    /\ engOp = "cap"
    /\ processed_steps = MAX_INTENT_STEPS
    /\ strategy.kind = "churn"

C9_NotApplied ==
    engOp' = "return_false" =>
        UNCHANGED <<book, venue, out, venueOp, oms, request, omsBranch, portfolio,
                    pfBranch, risk, strategy, latency, pc, running, queue,
                    processed_steps, ctx>>

(* C9: OrderBook.apply of an event for another symbol returns false and
   leaves the book as it was, and a step in which Engine.on_market_event
   returns false changes nothing: not the book, the venue and its reports,
   the strategy, the risk engine, the OMS, the portfolio or the latency
   stats. *)
C9_OtherSymbolNoEffect ==
    /\ [](\A event \in EngineEvents :
            event.symbol # book.symbol =>
                OrderBook_apply_delta(book, event) = [book |-> book, applied |-> FALSE])
    /\ [][C9_NotApplied]_vars

(* An event for another symbol arrived while the book had a level and an
   order was resting in the venue *)
C9_Witness ==
    /\ engOp = "return_false"
    /\ DOMAIN venue.live_orders # {}
    /\ DOMAIN book.asks \cup DOMAIN book.bids # {}
    /\ latency > 0

(* A step of a timer tick: the call of on_timer or a step inside it *)
C20_Frame ==
    (engOp' = "on_timer" \/ running.kind = "timer") =>
        /\ book' = book
        /\ engOp' # "sweep"
        /\ venueOp' \in {venueOp, "submit"}

(* Inside a timer tick a Place that crosses the book comes back from
   venue.submit as Accepted and Filled for its full quantity *)
C20_Submit ==
    (/\ running.kind = "timer"
     /\ engOp' = "submit"
     /\ Unwrap(request').kind = "Place"
     /\ Crosses(Unwrap(request'), book))
    => /\ Len(out') = 2
       /\ out'[1].status = "Accepted"
       /\ out'[2].status = "Filled"
       /\ out'[2].client_order_id = Unwrap(request').client_order_id
       /\ out'[2].filled_qty = Unwrap(request').qty

(* Inside a timer tick a Filled report moves the position by its quantity *)
C20_Report ==
    (running.kind = "timer" /\ engOp' = "report" /\ Head(out).status = "Filled")
    => Portfolio_position_lots(portfolio', Head(out).symbol)
          = Portfolio_position_lots(portfolio, Head(out).symbol)
            + (IF Head(out).side = "Bid" THEN 1 ELSE -1) * Head(out).filled_qty

(* A timer tick returns with every report processed *)
C20_Return == (running.kind = "timer" /\ pc' = "idle") => out = <<>>

(* C20: no step of Engine.on_timer changes the order book or runs the
   venue's passive sweep; the intents strategy.on_timer emits are taken by
   the same risk, OMS, venue.submit and report-processing steps as those of
   a market event, so that inside a timer tick a crossing Place is answered
   Accepted and Filled, the Filled report moves the position by the order's
   quantity, and the tick does not return before its reports are
   processed. *)
C20_TimerSkipsBookOnly ==
    /\ [][C20_Frame]_vars
    /\ [][C20_Submit]_vars
    /\ [][C20_Report]_vars
    /\ [][C20_Return]_vars

(* Inside a timer tick the Filled report of the first order ever placed was
   processed and opened a position.  The venue had stamped two reports in
   all, Accepted and Filled, so the order was placed on this tick and
   crossed. *)
C20_Witness ==
    /\ running.kind = "timer"
    /\ engOp = "report"
    /\ pfBranch = "fill"
    /\ oms.next_id = 2
    /\ venue.next_ts_ns = 3
    /\ Portfolio_position_lots(portfolio, BookSymbol) # 0
    /\ IsSome(ctx) /\ Unwrap(ctx).position_lots # 0

(* The first step of an applied market event: the book takes the event and
   the venue sweeps its resting orders against the book as the event left
   it; the OMS and the portfolio are not touched yet *)
C27_BookThenSweep ==
    (pc = "idle" /\ pc' = "market") =>
        \E event \in EngineEvents, keys \in KeyOrders(venue.live_orders) :
            /\ OrderBook_apply_delta(book, event).applied
            /\ book' = OrderBook_apply_delta(book, event).book
            /\ venue' = SimVenue_on_book_update(venue, book', keys, <<>>).venue
            /\ out' = SimVenue_on_book_update(venue, book', keys, <<>>).out
            /\ oms' = oms
            /\ portfolio' = portfolio
            /\ strategy' = strategy

(* Until strategy.on_market_event is called, a step applies the first
   waiting sweep report to the OMS and to the portfolio, and the venue is
   not called *)
C27_ReportsFirst ==
    (pc = "market" /\ pc' = "market") =>
        /\ out # <<>>
        /\ oms' = Oms_on_execution_report(oms, Head(out))
        /\ portfolio' = Portfolio_on_execution_report(portfolio, Head(out))
        /\ out' = Tail(out)
        /\ venue' = venue
        /\ book' = book

(* strategy.on_market_event is called when no sweep report is waiting, with
   a context built from the OMS and the portfolio as the reports left them,
   and the drain starts after it *)
C27_ThenStrategy ==
    (pc = "market" /\ pc' # "market") =>
        /\ out = <<>>
        /\ pc' = "drain"
        /\ engOp' = "on_market_event"
        /\ ctx' = Some(build_context(book, portfolio, oms, running.ts_ns,
                                     running.symbol))
        /\ Unwrap(ctx').position_lots = Portfolio_position_lots(portfolio, running.symbol)
        /\ Unwrap(ctx').open_orders = oms.open_orders_count
        /\ UNCHANGED <<oms, portfolio, book, venue, out>>

(* venue.submit is called from the drain only *)
C27_SubmitInDrain ==
    (venueOp' = "submit" /\ (venue' # venue \/ out' # out \/ engOp' = "submit"))
        => (pc = "drain" /\ pc' = "drain")

(* C27: within one applied market event the steps come in this order: the
   book takes the event, the venue sweeps, every sweep report is applied to
   the OMS and the portfolio, strategy.on_market_event is called, and then
   the intent queue is drained.  The context on_market_event is given shows
   the position and the open-order count after all the passive fills of the
   event, and venue.submit is not called before on_market_event has
   returned. *)
C27_StepOrder ==
    /\ [][C27_BookThenSweep]_vars
    /\ [][C27_ReportsFirst]_vars
    /\ [][C27_ThenStrategy]_vars
    /\ [][C27_SubmitInDrain]_vars

(* strategy.on_market_event has just been called in the first market event
   that applied.  The book was empty until this event, so the one order ever
   placed was resting, the sweep of this event filled it, and the context
   shows the position it opened and no open order. *)
C27_Witness ==
    /\ engOp = "on_market_event"
    /\ latency = 0
    /\ oms.next_id = 2
    /\ venue.next_ts_ns = 3
    /\ pfBranch = "fill"
    /\ Unwrap(ctx).position_lots # 0
    /\ Unwrap(ctx).open_orders = 0

(* The intent at the head of the queue and what the risk engine says of it *)
C28_Intent == Head(queue).intent

C28_Decision ==
    RiskEngine_evaluate(risk,
                        build_context(book, portfolio, oms, running.ts_ns,
                                      running.symbol),
                        C28_Intent)

(* An iteration of the drain that gets as far as the risk engine *)
C28_Evaluated ==
    /\ pc = "drain"
    /\ out = <<>>
    /\ queue # <<>>
    /\ processed_steps < MAX_INTENT_STEPS
    /\ processed_steps' = processed_steps + 1

C28_Rejected ==
    (C28_Evaluated /\ C28_Decision.action = "Reject") =>
        /\ oms' = oms
        /\ request' = request
        /\ portfolio' = portfolio
        /\ venue' = venue
        /\ venueOp' = venueOp
        /\ out' = <<>>
        /\ pc' = "drain"
        /\ Intents(queue') = Tail(Intents(queue))

C28_Allowed ==
    (C28_Evaluated /\ C28_Decision.action # "Reject") =>
        LET a == Oms_apply_intent(oms, C28_Decision.intent, running.ts_ns) IN
        /\ oms' = a.oms
        /\ request' = a.request

(* C28: an intent the risk engine rejects leaves no trace: no client order
   id is minted, no OMS entry is created or changed, the venue is not called
   and no report is produced, and the drain goes on with the next intent; an
   intent it allows reaches the OMS as the intent the risk engine returned,
   which need not be the one the strategy pushed. *)
C28_RiskGate == [][C28_Rejected /\ C28_Allowed]_vars

(* The drain has just dropped a PlaceLimit the risk engine rejected: the
   position is at the limit of MaxPositionPolicy(1), the one order ever
   minted is the filled one that opened it, and the drain is still running *)
C28_Witness ==
    /\ engOp = "risk_reject"
    /\ pc = "drain"
    /\ out = <<>>
    /\ risk = <<MaxPositionPolicy(1)>>
    /\ Abs(Portfolio_position_lots(portfolio, BookSymbol)) = 1
    /\ oms.next_id = 2

(* C36: whenever an entry of the engine has returned, the client order ids
   the OMS holds in a non-terminal state are exactly the keys of the
   venue's live_orders, and every one of them is in state Live *)
C36_OmsMatchesVenue ==
    pc = "idle" =>
        /\ OpenEntries(oms) = DOMAIN venue.live_orders
        /\ \A c \in OpenEntries(oms) : oms.orders[c].state = "Live"

(* An entry has returned leaving one order filled and the other resting *)
C36_Witness ==
    /\ pc = "idle"
    /\ engOp \in {"return", "return_true"}
    /\ DOMAIN oms.orders = {1, 2}
    /\ \E c \in {1, 2} :
          /\ oms.orders[c].state = "Filled"
          /\ DOMAIN venue.live_orders = {1, 2} \ {c}
          /\ oms.orders[3 - c].state = "Live"

(* The step is one turn of process_reports, and the report it applies is a
   Filled one *)
C37_FilledReportApplied ==
    /\ pc \in {"market", "drain"}
    /\ out # <<>>
    /\ out' = Tail(out)
    /\ engOp' = "report"
    /\ Head(out).status = "Filled"

C37_Signed(report) ==
    IF report.side = "Bid" THEN report.filled_qty ELSE -report.filled_qty

C37_Step ==
    /\ C37_FilledReportApplied =>
         LET report == Head(out)
             c == report.client_order_id
         IN  /\ c \in DOMAIN oms.orders
             /\ oms.orders[c].state # "Filled"
             /\ oms'.orders[c].state = "Filled"
             /\ \A sym \in {BookSymbol, OtherSymbol} :
                   Portfolio_position_lots(portfolio', sym) =
                       Portfolio_position_lots(portfolio, sym)
                       + (IF sym = report.symbol THEN C37_Signed(report) ELSE 0)
    /\ ~C37_FilledReportApplied =>
         \A sym \in {BookSymbol, OtherSymbol} :
            Portfolio_position_lots(portfolio', sym) =
                Portfolio_position_lots(portfolio, sym)
    /\ \A c \in DOMAIN oms.orders :
          oms.orders[c].state = "Filled" =>
              /\ c \in DOMAIN oms'.orders
              /\ oms'.orders[c].state = "Filled"

(* C37: in the engine each client order id receives at most one Filled
   report (a Filled report is applied only to an order that is not yet
   Filled, makes it Filled, and a Filled order stays Filled), and the
   position of the portfolio is the sum over the Filled reports of
   +filled_qty for a bid and -filled_qty for an ask: it starts at zero,
   each Filled report moves it by that amount, and nothing else moves it *)
C37_OneFillPerOrder ==
    /\ \A sym \in {BookSymbol, OtherSymbol} : Portfolio_position_lots(portfolio, sym) = 0
    /\ [][C37_Step]_vars

(* The Filled report of the second order has just been applied, and the
   two fills add up to a position of two lots *)
C37_Witness ==
    /\ engOp = "report"
    /\ pfBranch = "fill"
    /\ DOMAIN oms.orders = {1, 2}
    /\ oms.orders[1].state = "Filled"
    /\ oms.orders[2].state = "Filled"
    /\ Abs(Portfolio_position_lots(portfolio, BookSymbol)) = 2

(* C38: with MaxPositionPolicy(limit), limit not zero, in the pipeline,
   the position is within the limit whenever an entry of the engine has
   returned: |position_lots| <= |limit| *)
C38_PositionWithinLimit ==
    \A limit \in {1} :
        (pc = "idle" /\ risk = <<MaxPositionPolicy(limit)>>) =>
            Abs(Portfolio_position_lots(portfolio, BookSymbol)) <= Abs(limit)

---------------------------------------------------------------------------
(* The engine around the market-making strategy, as the simulate command
   builds it for --strategy mm: an empty risk pipeline and a venue without
   fees *)

MaxMmOrders == 5    \* client order ids minted in one run of the market maker
MaxMmEvents == 3    \* applied market events in one run of the market maker

MmEngineConfigs == {<<1, 1, 0>>, <<1, 1, 1>>}

MmEngineEvents ==
    {L2Delta(t, BookSymbol, <<LevelUpdate(sd, p, q)>>) :
        t \in EventTimes, sd \in Sides, p \in 1..MaxPrice, q \in LevelQtys}
    \cup {L2Delta(t, BookSymbol, <<LevelUpdate("Bid", 1, 1), LevelUpdate("Ask", 3, 1)>>) :
        t \in EventTimes}
    \cup {L2Delta(t, OtherSymbol, <<LevelUpdate("Ask", 1, 1)>>) : t \in EventTimes}

InitMmEngine ==
    \E cfg \in MmEngineConfigs :
        InitWith(<<0, 0>>, <<>>, MmStrategy_new(cfg[1], cfg[2], cfg[3]), FALSE)

NextMmEngine ==
    \/ \E event \in MmEngineEvents, keys \in KeyOrders(venue.live_orders) :
          /\ oms.next_id <= MaxMmOrders
          /\ EngineOnMarketEventUpTo(event, keys, MaxMmEvents, 3 * MaxMmOrders)
          /\ UNCHANGED replay
    \/ \E t \in EventTimes :
          /\ oms.next_id <= MaxMmOrders
          /\ EngineOnTimer(t, BookSymbol)
          /\ UNCHANGED replay
    \/ EngineProcessReport
    \/ EngineStrategyOnMarketEvent
    \/ EngineHandleIntent
    \/ EngineReturn

SpecMmEngine == InitMmEngine /\ [][NextMmEngine]_vars

C40_Resting(side) ==
    {c \in DOMAIN venue.live_orders : venue.live_orders[c].side = side}

C40_Tracked(order_id) == IF IsSome(order_id) THEN {Unwrap(order_id)} ELSE {}

(* C40: with the market-making strategy, SimVenue and an empty risk
   pipeline, whenever an entry of the engine has returned at most one bid
   and at most one ask are resting, open_orders_count is at most 2, and
   the order id the strategy holds for a side is the id of the order
   resting in the venue on that side (none when none is resting) *)
C40_OneQuotePerSide ==
    pc = "idle" =>
        /\ Cardinality(C40_Resting("Bid")) <= 1
        /\ Cardinality(C40_Resting("Ask")) <= 1
        /\ oms.open_orders_count <= 2
        /\ C40_Tracked(strategy.bid_order_id) = C40_Resting("Bid")
        /\ C40_Tracked(strategy.ask_order_id) = C40_Resting("Ask")

(* The first bid has been filled by a book update and quoted again, and
   the ask has been moved: an entry has returned with the second bid and
   the first ask resting, both held by the strategy *)
C40_Witness ==
    /\ pc = "idle"
    /\ 1 \in DOMAIN oms.orders
    /\ oms.orders[1].state = "Filled"
    /\ Portfolio_position_lots(portfolio, BookSymbol) # 0
    /\ Cardinality(C40_Resting("Bid")) = 1
    /\ Cardinality(C40_Resting("Ask")) = 1
    /\ IsSome(strategy.bid_order_id)
    /\ IsSome(strategy.ask_order_id)
    /\ oms.open_orders_count = 2

=============================================================================
